---- MODULE Spec2Model ----
(***************************************************************************)
(* State-machine model of the improve-evaluate-retry loops of agenticP5js: *)
(*   universal : UniversalOrchestrator.runSession, run by the web API's    *)
(*               generateInBackground (universalOrchestrator.js)           *)
(*   pixel     : PixelFeedbackLoopTest.runPixelFeedbackLoop                *)
(*   gemini    : GeminiOnlyOrchestrator.runGeminiLoop                      *)
(*   feedback  : FeedbackLoopTest.runFeedbackLoop                          *)
(* The code generation gateway, the renderer (puppeteer page) and the      *)
(* scoring services are external: every call to one of them returns a      *)
(* nondeterministically chosen outcome, failures included.  One action     *)
(* models one await point of the loop together with the synchronous code   *)
(* that follows it up to the next await.                                   *)
(***************************************************************************)
EXTENDS Integers, Sequences, FiniteSets, TLC

---------------------------------------------------------------------------
(* Program constants *)

\* UniversalOrchestrator constructor: config.maxIterations || 5, clamped to 1..7
UniversalDefaultIterations == 5
UniversalMinIterations == 1
UniversalMaxIterations == 7
\* config.targetScore || 15, clamped to 1..20
UniversalDefaultTarget == 15
UniversalMinTarget == 1
UniversalMaxTarget == 20
UniversalMaxFixAttempts == 3
\* score of a successful / failed Gemini self-assessment
SelfScoreSuccess == 10
SelfScoreFailure == 0

PixelMaxIterations == 10
PixelTargetScore == 95
PixelMaxFixAttempts == 5
PixelMaxFallbacks == 3

GeminiMaxIterations == 10
GeminiMaxFixAttempts == 3

FeedbackMaxIterations == 4
\* this.targetScore = 7.0 on the judge's 0-10 scale; judge scores are kept in
\* tenths (one decimal digit is all the score regexp captures), so 7.0 is 70
FeedbackTargetScore == 70

---------------------------------------------------------------------------
(* Bounds of the model and the input sets *)

\* number of distinct source texts the generation gateway can return
NumCodes == 2

Codes == 1..NumCodes
\* JavaScript null for a code variable
NoCode == 0

Orchestrators == {"universal", "pixel", "gemini", "feedback"}

\* configurations a caller supplies to the UniversalOrchestrator constructor
\* (0 stands for a missing or falsy number, groqKey for GROQ_API_KEY being set)
UniversalConfigs ==
    { [maxIterations |-> 0, targetScore |-> 0,  evaluationMode |-> "self", groqKey |-> FALSE],
      [maxIterations |-> 2, targetScore |-> 7,  evaluationMode |-> "self", groqKey |-> TRUE ],
      [maxIterations |-> 9, targetScore |-> 25, evaluationMode |-> "dual", groqKey |-> TRUE ],
      [maxIterations |-> 3, targetScore |-> 7,  evaluationMode |-> "dual", groqKey |-> TRUE ],
      [maxIterations |-> 0, targetScore |-> 0,  evaluationMode |-> "dual", groqKey |-> FALSE] }

\* judge scores in tenths, as parsed by /([0-9](?:\.[0-9])?)/ : 0.0, 3.7, 9.9
NativeScores == {0, 37, 99}
\* results of calculateSimpleScore (100 minus deductions of 25, 5 and 2)
PixelScores == {50, 98}

\* what a page load can do: the navigation succeeds or not, a console error or
\* an uncaught exception is observed or not, a <canvas> exists or not
PageBehaviours ==
    { [loads |-> TRUE,  scriptError |-> FALSE, canvas |-> TRUE ],
      [loads |-> TRUE,  scriptError |-> TRUE,  canvas |-> TRUE ],
      [loads |-> TRUE,  scriptError |-> FALSE, canvas |-> FALSE],
      [loads |-> TRUE,  scriptError |-> TRUE,  canvas |-> FALSE],
      [loads |-> FALSE, scriptError |-> FALSE, canvas |-> FALSE],
      [loads |-> FALSE, scriptError |-> TRUE,  canvas |-> FALSE] }

---------------------------------------------------------------------------
VARIABLES
    orch,               \* which orchestrator runs this session
    maxIterations,      \* this.maxIterations
    targetScore,        \* this.targetScore
    evaluationMode,     \* this.evaluationMode ("self" | "dual"; "n/a" outside universal)
    groqEvaluator,      \* this.groqEvaluator was constructed
    pc,                 \* await point the run is suspended at
    status,             \* "running" | "completed" | "failed"
    failure,            \* message of the error that failed the session
    iteration,          \* loop variable of the round loop
    currentIteration,   \* currentIteration (last round entered)
    fixAttempt,         \* loop variable of the error-repair loop
    finalCode,          \* finalCode of the round
    previousCode,       \* previousCode handed to the next generation request
    previousFeedback,   \* previousFeedback / pixelInstructions
    currentCode,        \* currentCode of the Gemini-only loop
    lastWorkingCode,    \* pixel loop: last code the detector found error-free
    fallbackCount,      \* pixel loop: fallbacks used so far
    errorFixed,         \* pixel loop: errorFixed of the round
    errorResult,        \* result of the round's last detectErrors call
    prevScreenshot,     \* Gemini-only loop: iteration{k-1}.png exists
    iterationHistory,   \* Gemini-only loop: the `iteration` fields of the
                        \* entries of iterationHistory
    iterations,         \* evaluation records written so far, one per completed round
    bestScore,
    bestIteration,
    detectCalls,        \* detectErrors calls made in the current round
    fixCalls,           \* fixJavaScriptErrors calls made in the current round
    captureCalls,       \* captureSketch calls made in the current round
    genFailedAt,        \* round of the latest failed generation call (0: none)
    lastCleanCode,      \* last code a detectErrors call of this session found clean
    fixedCode,          \* code the latest fixJavaScriptErrors call returned, until
                        \* the next detectErrors call (NoCode: none)
    progress,           \* sessionInfo.progress.iterations of the web API's session
    captureBrowser,     \* SketchCapture.browser is an open browser
    detectorBrowser,    \* ErrorDetector.browser is an open browser
    results,            \* what the run returned to its caller
    deleted,            \* the session was removed from activeSessions
    deletedAt,          \* round that was executing when it was removed (0: none)
    starts,             \* runs started for the session
    startResponse,      \* answer to the latest POST /api/sessions/:id/start
    call,               \* function application under evaluation
    ret,                \* its return value
    lastIndex           \* SecurityValidator: lastIndex of the one pattern of
                        \* PROMPT_INJECTION_PATTERNS that has the g flag

vars == << orch, maxIterations, targetScore, evaluationMode, groqEvaluator, pc,
           status, failure, iteration, currentIteration, fixAttempt, finalCode,
           previousCode, previousFeedback, currentCode, lastWorkingCode,
           fallbackCount, errorFixed, errorResult, prevScreenshot,
           iterationHistory, iterations,
           bestScore, bestIteration, detectCalls, fixCalls, captureCalls,
           genFailedAt, lastCleanCode, fixedCode, progress, captureBrowser,
           detectorBrowser,
           results, deleted, deletedAt, starts, startResponse, call, ret,
           lastIndex >>

---------------------------------------------------------------------------
(* Pure helpers *)

Min(a, b) == IF a <= b THEN a ELSE b
Max(a, b) == IF a >= b THEN a ELSE b

\* Math.min(Math.max(config.maxIterations || 5, 1), 7)
ClampIterations(raw) ==
    Min(Max(IF raw = 0 THEN UniversalDefaultIterations ELSE raw,
            UniversalMinIterations), UniversalMaxIterations)

\* Math.min(Math.max(config.targetScore || 15, 1), 20)
ClampTarget(raw) ==
    Min(Max(IF raw = 0 THEN UniversalDefaultTarget ELSE raw,
            UniversalMinTarget), UniversalMaxTarget)

\* Math.round(groqResult.score * 2) for a score given in tenths
DualScore(tenths) == (2 * tenths + 5) \div 10

MaxFixAttempts ==
    CASE orch = "universal" -> UniversalMaxFixAttempts
      [] orch = "pixel"     -> PixelMaxFixAttempts
      [] orch = "gemini"    -> GeminiMaxFixAttempts
      [] OTHER              -> 0

\* ErrorDetector.detectErrors: the result object for one page load
\* (a detector whose catch of a failed page load records the load_error entry
\* but reports hasErrors as counted before it)
DetectResult_LoadIgnored(page) ==
    LET thrown == IF page.scriptError THEN {"script_error"} ELSE {}
        errors == IF ~page.loads THEN thrown \cup {"load_error"}
                  ELSE IF ~page.canvas THEN thrown \cup {"no_canvas"}
                  ELSE thrown
    IN  [hasErrors |-> IF page.loads THEN errors # {} ELSE thrown # {},
         errors |-> errors, canvasExists |-> page.loads /\ page.canvas]

\* (a detector that counts thrown errors only)
DetectResult_CanvasIgnored(page) ==
    LET errors == IF page.scriptError THEN {"script_error"} ELSE {}
    IN  [hasErrors |-> errors # {}, errors |-> errors,
         canvasExists |-> page.loads /\ page.canvas]

\* errors holds the types of the entries of the result's errors array:
\* "script_error" for console_error and page_error entries, "no_canvas",
\* and "load_error" pushed by the catch of page.goto
DetectResult(page) ==
    LET thrown == IF page.scriptError THEN {"script_error"} ELSE {}
        errors == IF ~page.loads THEN thrown \cup {"load_error"}
                  ELSE IF ~page.canvas THEN thrown \cup {"no_canvas"}
                  ELSE thrown
    IN  IF ~page.loads
        THEN [hasErrors |-> TRUE, errors |-> errors, canvasExists |-> FALSE]
        ELSE [hasErrors |-> errors # {}, errors |-> errors,
              canvasExists |-> page.canvas]

NoResult == [hasErrors |-> FALSE, errors |-> {}, canvasExists |-> TRUE]

\* the test that ends the repair loop with "no errors"
CleanRender(r) ==
    IF orch = "universal" THEN ~r.hasErrors /\ r.canvasExists ELSE ~r.hasErrors

\* what a call to an external service can come back with: one of the values
\* of S, or a failure (a rejected promise / a non-OK HTTP response)
Outcomes(S) ==
    { [ok |-> TRUE, val |-> v] : v \in S } \cup { [ok |-> FALSE, val |-> 0] }

\* (a loop test that is off by one)
LoopContinues_OffByOne(i, max) == i <= max + 1

\* for (let iteration = 1; iteration <= this.maxIterations; iteration++)
LoopContinues(i, max) == i <= max

\* fixAttempt === this.maxFixAttempts
AttemptsExhausted(a, max) == a = max

\* (a repair loop that forgets to count its attempts)
NextFixAttempt_Stuck(a) == a

\* fixAttempt++
NextFixAttempt(a) == a + 1

\* (best tracking that overwrites on every round / on ties)
IsNewBest_Always(score, best) == TRUE
IsNewBest_Ties(score, best) == score >= best

\* evaluation.score > bestScore
IsNewBest(score, best) == score > best

\* (a stopping test that needs the target to be exceeded)
TargetReached_Strict(score, target) == score > target

\* evaluation.score >= this.targetScore
TargetReached(score, target) == score >= target

\* nothing has been returned yet (sessionInfo.results is undefined)
NoResults ==
    [success |-> FALSE, bestScore |-> 0, bestIteration |-> 0,
     targetReached |-> FALSE]

\* no function application is under evaluation, nothing has been returned
NoCall == [fn |-> "none", arg |-> 0]
NoReturn == [fn |-> "none", val |-> 0]

---------------------------------------------------------------------------
(* Initial state: the orchestrator object has been constructed *)

Init ==
    /\ orch \in Orchestrators
    /\ \E config \in UniversalConfigs :
          CASE orch = "universal" ->
                 /\ maxIterations = ClampIterations(config.maxIterations)
                 /\ targetScore = ClampTarget(config.targetScore)
                 /\ evaluationMode = config.evaluationMode
                 \* new ImageEvaluator only if a key is given and the mode is dual
                 /\ groqEvaluator = (config.groqKey /\ config.evaluationMode = "dual")
            [] orch = "pixel" ->
                 /\ maxIterations = PixelMaxIterations
                 /\ targetScore = PixelTargetScore
                 /\ evaluationMode = "n/a"
                 /\ groqEvaluator = FALSE
            [] orch = "gemini" ->
                 /\ maxIterations = GeminiMaxIterations
                 /\ targetScore = 0
                 /\ evaluationMode = "n/a"
                 /\ groqEvaluator = FALSE
            [] orch = "feedback" ->
                 /\ maxIterations = FeedbackMaxIterations
                 /\ targetScore = FeedbackTargetScore
                 /\ evaluationMode = "n/a"
                 /\ groqEvaluator = TRUE
    /\ pc = "setup"
    /\ status = "running"
    /\ failure = "none"
    /\ iteration = 1
    /\ currentIteration = 1
    /\ fixAttempt = 1
    /\ finalCode = NoCode
    /\ previousCode = NoCode
    /\ previousFeedback = "none"
    /\ currentCode = NoCode
    /\ lastWorkingCode = NoCode
    /\ fallbackCount = 0
    /\ errorFixed = FALSE
    /\ errorResult = NoResult
    /\ prevScreenshot = FALSE
    /\ iterationHistory = << >>
    /\ iterations = << >>
    /\ bestScore = 0
    /\ bestIteration = 1
    /\ detectCalls = 0
    /\ fixCalls = 0
    /\ captureCalls = 0
    /\ genFailedAt = 0
    /\ lastCleanCode = NoCode
    /\ fixedCode = NoCode
    /\ progress = << >>
    /\ captureBrowser = FALSE
    /\ detectorBrowser = FALSE
    /\ results = NoResults
    /\ deleted = FALSE
    /\ deletedAt = 0
    /\ starts = 1
    /\ startResponse = "none"
    /\ call = NoCall
    /\ ret = NoReturn
    /\ lastIndex = 0


---------------------------------------------------------------------------
(* Shared pieces of the actions *)

\* let iterationHistory = [] of runGeminiLoop
historyVars == << iterationHistory >>
cfgVars == << orch, maxIterations, targetScore, evaluationMode, groqEvaluator >>
bestVars == << iterations, bestScore, bestIteration >>
prevVars == << previousCode, previousFeedback >>
pixelVars == << lastWorkingCode, fallbackCount >>
\* variables declared inside the body of the round loop, and the call counters
localVars == << fixAttempt, finalCode, errorFixed, errorResult, detectCalls,
                fixCalls, captureCalls >>

browserVars == << captureBrowser, detectorBrowser >>
serverVars == << deleted, deletedAt, starts, startResponse >>
pureVars == << call, ret, lastIndex >>

\* the finally block of a run, entered with the two browser handles in the
\* states cap and det: the pixel and the Gemini-only loop close both,
\* FeedbackLoopTest closes its SketchCapture, runSession has no finally block
Finally(cap, det) ==
    /\ captureBrowser' = IF orch = "universal" THEN cap ELSE FALSE
    /\ detectorBrowser' = IF orch \in {"universal", "feedback"} THEN det ELSE FALSE

\* An exception leaves the round loop.  runSession rethrows it and
\* generateInBackground records status 'failed'; the three test orchestrators
\* return { success: false, error }.
ThrowFrom(message, cap, det) ==
    /\ status' = "failed"
    /\ failure' = message
    /\ pc' = "done"
    /\ Finally(cap, det)
    /\ UNCHANGED results

Throw(message) == ThrowFrom(message, captureBrowser, detectorBrowser)

\* the step raises no exception and returns nothing
NoThrow == UNCHANGED << status, failure, results, browserVars >>

\* (a callback that pushes an entry on every report)
ProgressCallback_AlwaysPush(entries, k, score) ==
    Append(entries, [iteration |-> k, score |-> score])

\* progressCallback of generateInBackground on a report that carries an
\* iteration and a score: the entry of that round is replaced if there is
\* one (findIndex), otherwise the new entry is pushed
ProgressCallback(entries, k, score) ==
    LET existing == { i \in 1 .. Len(entries) : entries[i].iteration = k }
        iterationData == [iteration |-> k, score |-> score]
    IN  IF existing # {}
        THEN [entries EXCEPT ![CHOOSE i \in existing : \A j \in existing : i <= j] = iterationData]
        ELSE Append(entries, iterationData)

\* end of the loop body without break: the body's variables go out of scope,
\* iteration++ and the loop test
NextRound ==
    /\ iteration' = iteration + 1
    /\ pc' = IF LoopContinues(iteration + 1, maxIterations)
             THEN "generate" ELSE "summary"
    /\ fixAttempt' = 1
    /\ finalCode' = NoCode
    /\ errorFixed' = FALSE
    /\ errorResult' = NoResult
    /\ detectCalls' = 0
    /\ fixCalls' = 0
    /\ captureCalls' = 0

\* a round's code is on disk: enter the repair loop (FeedbackLoopTest has
\* none and goes straight to the capture)
StartRepair(code) ==
    /\ finalCode' = code
    /\ pc' = IF orch = "feedback" THEN "capture" ELSE "detect"
    /\ UNCHANGED << fixAttempt, errorFixed, errorResult, detectCalls, fixCalls,
                    captureCalls >>

\* (a fallback without the maxFallbacks cap)
UseFallback_Uncapped(fixed, working, count) ==
    orch = "pixel" /\ ~fixed /\ working # NoCode

\* (a fallback whose cap lets one more through)
UseFallback_OffByOne(fixed, working, count) ==
    orch = "pixel" /\ ~fixed /\ working # NoCode /\ count <= PixelMaxFallbacks

\* PixelFeedbackLoopTest: if (!errorFixed && lastWorkingCode &&
\*                            fallbackCount < this.maxFallbacks)
UseFallback(fixed, working, count) ==
    orch = "pixel" /\ ~fixed /\ working # NoCode /\ count < PixelMaxFallbacks

\* the repair loop is left with finalCode = code, errorFixed = fixed and
\* lastWorkingCode = working; the pixel loop then applies its fallback and
\* the Gemini-only loop sets currentCode = finalCode
LeaveRepair(fixed, code, working) ==
    /\ pc' = "capture"
    /\ lastWorkingCode' = working
    /\ IF UseFallback(fixed, working, fallbackCount)
       THEN /\ fallbackCount' = fallbackCount + 1
            /\ finalCode' = working
            /\ errorFixed' = TRUE
            /\ currentCode' = currentCode
       ELSE /\ fallbackCount' = fallbackCount
            /\ finalCode' = code
            /\ errorFixed' = fixed
            /\ currentCode' = IF orch = "gemini" THEN code ELSE currentCode

---------------------------------------------------------------------------
(* Actions *)

\* setupSession and the target's metadata: any failure here is thrown
\* before the first round
SetupSession ==
    /\ UNCHANGED << lastCleanCode, fixedCode, progress, historyVars, serverVars, pureVars >>
    /\ pc = "setup"
    /\ \E ok \in BOOLEAN :
          IF ok
          THEN /\ pc' = "generate"
               /\ NoThrow
          ELSE Throw("setup")
    /\ UNCHANGED << cfgVars, iteration, currentIteration, localVars, prevVars,
                    currentCode, pixelVars, prevScreenshot, bestVars,
                    genFailedAt >>

\* generateInitialCode (round 1) / generateImprovedCode (round k > 1).
\* The gateway returns some code or rejects.  Only GeminiOnlyOrchestrator,
\* in round 1, catches the rejection; it then skips the round (continue).
GenerateCode ==
    /\ UNCHANGED << lastCleanCode, fixedCode, progress, historyVars, serverVars, pureVars >>
    /\ pc = "generate"
    /\ orch # "gemini" \/ iteration = 1
    /\ currentIteration' = iteration
    /\ \E out \in Outcomes(Codes) :
          IF ~out.ok
          THEN /\ genFailedAt' = iteration
               /\ IF orch = "gemini"
                  THEN /\ NextRound
                       /\ NoThrow
                  ELSE /\ Throw("generation")
                       /\ UNCHANGED << iteration, localVars >>
          ELSE /\ StartRepair(out.val)
               /\ NoThrow
               /\ UNCHANGED << iteration, genFailedAt >>
    /\ UNCHANGED << cfgVars, prevVars, currentCode, pixelVars, prevScreenshot,
                    bestVars >>

\* GeminiOnlyOrchestrator, round k > 1: compareImagesAndImprove on the previous
\* round's screenshot.  It never throws: a failure (a missing screenshot file
\* included) comes back as success: false and the round reuses currentCode,
\* which fs.writeFileSync rejects with a TypeError when it is still null.
GeminiCompare ==
    /\ UNCHANGED << lastCleanCode, fixedCode, progress, historyVars, serverVars, pureVars >>
    /\ pc = "generate"
    /\ orch = "gemini" /\ iteration > 1
    /\ currentIteration' = iteration
    /\ \E success \in (IF prevScreenshot THEN BOOLEAN ELSE {FALSE}) :
          IF success
          THEN /\ pc' = "improve"
               /\ NoThrow
               /\ UNCHANGED localVars
          ELSE IF currentCode = NoCode
               THEN /\ Throw("type_error")
                    /\ UNCHANGED localVars
               ELSE /\ StartRepair(currentCode)
                    /\ NoThrow
    /\ UNCHANGED << cfgVars, iteration, prevVars, currentCode, pixelVars,
                    prevScreenshot, bestVars, genFailedAt >>

\* entries iterationHistory keeps
HistoryWindow == 3

\* (a history that is never trimmed)
PushHistory_NoShift(history, k) == Append(history, k)

\* iterationHistory.push({ iteration: k, ... }) and, if the length is then
\* above 3, iterationHistory.shift()
PushHistory(history, k) ==
    LET pushed == Append(history, k)
    IN  IF Len(pushed) > HistoryWindow THEN Tail(pushed) ELSE pushed

\* GeminiOnlyOrchestrator, round k > 1: generateImprovedCodeFromVisualAnalysis.
\* It never throws either: a failure is success: false, and the loop skips the
\* rest of the round (continue), leaving no screenshot for the round.  The
\* analysis is pushed to iterationHistory before the result is looked at.
GeminiImprove ==
    /\ UNCHANGED << lastCleanCode, fixedCode, progress, serverVars, pureVars >>
    /\ pc = "improve"
    /\ iterationHistory' = PushHistory(iterationHistory, iteration - 1)
    /\ \E out \in Outcomes(Codes) :
          IF ~out.ok
          THEN /\ genFailedAt' = iteration
               /\ NextRound
               /\ prevScreenshot' = FALSE
          ELSE /\ StartRepair(out.val)
               /\ UNCHANGED << iteration, genFailedAt, prevScreenshot >>
    /\ NoThrow
    /\ UNCHANGED << cfgVars, currentIteration, prevVars, currentCode, pixelVars,
                    bestVars >>

\* one pass of the repair loop up to its next await: detectErrors, the
\* "no errors" break and the "max attempts" break
DetectErrors ==
    /\ pc = "detect"
    /\ detectCalls' = detectCalls + 1
    \* if (!this.browser) await this.init()
    /\ detectorBrowser' = TRUE
    /\ fixedCode' = NoCode
    /\ UNCHANGED << captureBrowser, results, progress, historyVars, serverVars,
                    pureVars >>
    /\ \E page \in PageBehaviours :
          LET r == DetectResult(page) IN
          /\ errorResult' = r
          /\ lastCleanCode' = IF CleanRender(r) THEN finalCode ELSE lastCleanCode
          /\ IF CleanRender(r)
             THEN \* pixel loop: errorFixed = true; lastWorkingCode = finalCode
                  LeaveRepair(TRUE, finalCode,
                              IF orch = "pixel" THEN finalCode ELSE lastWorkingCode)
             ELSE IF AttemptsExhausted(fixAttempt, MaxFixAttempts)
                  THEN LeaveRepair(FALSE, finalCode, lastWorkingCode)
                  ELSE /\ pc' = "fix"
                       /\ UNCHANGED << finalCode, errorFixed, currentCode, pixelVars >>
    /\ UNCHANGED << cfgVars, status, failure, iteration, currentIteration,
                    fixAttempt, prevVars, prevScreenshot, bestVars, fixCalls,
                    captureCalls, genFailedAt >>

\* the code the repair loop goes on with after fixJavaScriptErrors returned
\* fixed:  universal keeps it if it is non-empty and differs from finalCode,
\* pixel always takes it, gemini takes it only under fixResult.success,
\* a field fixJavaScriptErrors never sets
RepairedCode(fixed, code) ==
    CASE orch = "universal" -> IF fixed # NoCode /\ fixed # code THEN fixed ELSE code
      [] orch = "pixel"     -> fixed
      [] OTHER              -> code

\* universal: "No code changes in fix attempt": break
RepairGivesUp(fixed, code) ==
    orch = "universal" /\ ~(fixed # NoCode /\ fixed # code)

\* the rest of a pass of the repair loop: fixJavaScriptErrors (which rethrows
\* a gateway failure), the update of finalCode, fixAttempt++ and the loop test
FixJavaScriptErrors ==
    /\ UNCHANGED << lastCleanCode, progress, historyVars, serverVars, pureVars >>
    /\ pc = "fix"
    /\ fixCalls' = fixCalls + 1
    /\ \E out \in Outcomes(Codes) :
          IF ~out.ok
          THEN /\ Throw("repair")
               /\ fixedCode' = NoCode
               /\ UNCHANGED << fixAttempt, finalCode, errorFixed, currentCode,
                               pixelVars >>
          ELSE /\ NoThrow
               /\ fixedCode' = IF RepairGivesUp(out.val, finalCode) THEN NoCode ELSE out.val
               /\ IF RepairGivesUp(out.val, finalCode)
                  THEN /\ LeaveRepair(FALSE, finalCode, lastWorkingCode)
                       /\ UNCHANGED fixAttempt
                  ELSE /\ fixAttempt' = NextFixAttempt(fixAttempt)
                       /\ IF NextFixAttempt(fixAttempt) <= MaxFixAttempts
                          THEN /\ pc' = "detect"
                               /\ finalCode' = RepairedCode(out.val, finalCode)
                               /\ UNCHANGED << errorFixed, currentCode, pixelVars >>
                          ELSE LeaveRepair(FALSE, RepairedCode(out.val, finalCode),
                                           lastWorkingCode)
    /\ UNCHANGED << cfgVars, iteration, currentIteration, prevVars, errorResult,
                    prevScreenshot, bestVars, detectCalls, captureCalls,
                    genFailedAt >>

\* captureSketch: page.goto, then the canvas lookup, which throws
\* 'No canvas found on page'; a script error on a page that has a canvas does
\* not stop the screenshot.  GeminiOnlyOrchestrator ends its round here.
CaptureScreenshot ==
    /\ UNCHANGED << lastCleanCode, fixedCode, progress, historyVars, serverVars, pureVars >>
    /\ pc = "capture"
    /\ \E page \in PageBehaviours :
          IF ~page.loads \/ ~page.canvas
          THEN /\ ThrowFrom(IF ~page.loads THEN "capture_load" ELSE "no_canvas",
                            TRUE, detectorBrowser)
               /\ captureCalls' = captureCalls + 1
               /\ UNCHANGED << iteration, prevScreenshot, fixAttempt, finalCode,
                               errorFixed, errorResult, detectCalls, fixCalls >>
          ELSE /\ UNCHANGED << status, failure, results, detectorBrowser >>
               \* if (!this.browser) await this.init()
               /\ captureBrowser' = TRUE
               /\ IF orch = "gemini"
                  THEN /\ NextRound
                       /\ prevScreenshot' = TRUE
                  ELSE /\ pc' = "evaluate"
                       /\ captureCalls' = captureCalls + 1
                       /\ UNCHANGED << iteration, prevScreenshot, fixAttempt,
                                       finalCode, errorFixed, errorResult,
                                       detectCalls, fixCalls >>
    /\ UNCHANGED << cfgVars, currentIteration, prevVars, currentCode, pixelVars,
                    bestVars, genFailedAt >>

\* (a result that always reports the target as reached)
ResultTargetReached_Always(best, target) == TRUE

\* (a result that reports the target as reached only when it was exceeded)
ResultTargetReached_Strict(best, target) == best > target

\* targetReached: bestScore >= this.targetScore
ResultTargetReached(best, target) == best >= target

\* (a self-assessment that gives a success the top of the scale)
SelfScore_TopOfScale(success) == IF success THEN UniversalMaxTarget ELSE SelfScoreFailure

\* score: result.success ? 10 : 0
SelfScore(success) == IF success THEN SelfScoreSuccess ELSE SelfScoreFailure

\* what the round's scoring call can return: an evaluation { score, feedback }
\* or an exception (ok = FALSE, feedback = its message)
\*  - self: compareImagesAndImprove catches its own failures and reports
\*    success: false, so evaluateIteration always returns an evaluation
\*  - dual: compareImages rethrows; without a Groq evaluator evaluateIteration
\*    throws before calling anything
\*  - pixel: compareAndGenerateInstructions;  feedback: compareImages
EvaluationOutcomes ==
    CASE orch = "universal" /\ evaluationMode = "self" ->
           { [ok |-> TRUE, score |-> SelfScore(success),
              feedback |-> IF success THEN "analysis" ELSE "error"] :
             success \in BOOLEAN }
      [] orch = "universal" /\ evaluationMode = "dual" ->
           IF ~groqEvaluator
           THEN { [ok |-> FALSE, score |-> 0, feedback |-> "groq_not_initialized"] }
           ELSE { [ok |-> TRUE, score |-> DualScore(n), feedback |-> "description"] :
                  n \in NativeScores }
                \cup { [ok |-> FALSE, score |-> 0, feedback |-> "evaluation"] }
      [] orch = "pixel" ->
           { [ok |-> TRUE, score |-> n, feedback |-> "instructions"] :
             n \in PixelScores }
           \cup { [ok |-> FALSE, score |-> 0, feedback |-> "evaluation"] }
      [] OTHER ->
           { [ok |-> TRUE, score |-> n, feedback |-> "description"] :
             n \in NativeScores }
           \cup { [ok |-> FALSE, score |-> 0, feedback |-> "evaluation"] }

\* the scoring call and the rest of the loop body: the evaluation record is
\* written, the best round is tracked, the stopping condition is tested, and
\* otherwise previousCode / previousFeedback are set for the next round
EvaluateIteration ==
    /\ UNCHANGED << lastCleanCode, fixedCode, historyVars, serverVars, pureVars >>
    /\ pc = "evaluate"
    /\ \E ev \in EvaluationOutcomes :
          IF ~ev.ok
          THEN /\ Throw(ev.feedback)
               /\ UNCHANGED << iteration, prevVars, bestVars, localVars, progress >>
          ELSE /\ NoThrow
               \* runSession reports the round to its progressCallback
               /\ progress' = IF orch = "universal"
                               THEN ProgressCallback(progress, iteration, ev.score)
                               ELSE progress
               /\ iterations' = Append(iterations,
                      [iteration |-> iteration, score |-> ev.score,
                       feedback |-> ev.feedback])
               /\ IF IsNewBest(ev.score, bestScore)
                  THEN /\ bestScore' = ev.score
                       /\ bestIteration' = iteration
                  ELSE UNCHANGED << bestScore, bestIteration >>
               /\ IF TargetReached(ev.score, targetScore)
                  THEN /\ pc' = "summary"
                       /\ UNCHANGED << iteration, prevVars, localVars >>
                  ELSE /\ previousCode' = finalCode
                       /\ previousFeedback' = ev.feedback
                       /\ NextRound
    /\ UNCHANGED << cfgVars, currentIteration, currentCode, pixelVars,
                    prevScreenshot, genFailedAt >>

\* after the loop: the final log lines, createSessionSummary and the return.
\* FeedbackLoopTest logs Math.min(iteration, this.maxIterations) where the
\* loop's let-bound iteration is out of scope: a ReferenceError, caught by the
\* method's catch, which returns success: false.
FinishSession ==
    /\ UNCHANGED << lastCleanCode, fixedCode, progress, historyVars, serverVars, pureVars >>
    /\ pc = "summary"
    /\ IF orch = "feedback"
       THEN Throw("reference_error")
       ELSE /\ status' = "completed"
            /\ pc' = "done"
            /\ results' = [success |-> TRUE, bestScore |-> bestScore,
                           bestIteration |-> bestIteration,
                           targetReached |->
                               ResultTargetReached(bestScore, targetScore)]
            /\ Finally(captureBrowser, detectorBrowser)
            /\ UNCHANGED failure
    /\ UNCHANGED << cfgVars, iteration, currentIteration, localVars, prevVars,
                    currentCode, pixelVars, prevScreenshot, bestVars,
                    genFailedAt >>

Next ==
    \/ SetupSession
    \/ GenerateCode
    \/ GeminiCompare
    \/ GeminiImprove
    \/ DetectErrors
    \/ FixJavaScriptErrors
    \/ CaptureScreenshot
    \/ EvaluateIteration
    \/ FinishSession

Spec == Init /\ [][Next]_vars

---------------------------------------------------------------------------
(* The web API: one session of the Express server *)

\* runs the model lets a client start for one session
MaxStarts == 2

\* bodies of POST /api/sessions/create (0 stands for a missing field or one
\* that parseInt turns into NaN or 0)
CreateRequests ==
    { [maxIterations |-> 2, targetScore |-> 7,  evaluationMode |-> "self"],
      [maxIterations |-> 3, targetScore |-> 7,  evaluationMode |-> "dual"],
      [maxIterations |-> 9, targetScore |-> 7,  evaluationMode |-> "self"],
      [maxIterations |-> 2, targetScore |-> 21, evaluationMode |-> "dual"] }

\* parseInt(req.body.maxIterations) || 5, parseInt(req.body.targetScore) || 15
ParsedConfig(body) ==
    [maxIterations |-> IF body.maxIterations = 0 THEN UniversalDefaultIterations
                       ELSE body.maxIterations,
     targetScore |-> IF body.targetScore = 0 THEN UniversalDefaultTarget
                     ELSE body.targetScore,
     evaluationMode |-> body.evaluationMode]

\* the validation of POST /api/sessions/create: anything else is answered 400
\* and no session is created
ConfigAccepted(config) ==
    /\ ~(config.maxIterations < UniversalMinIterations
          \/ config.maxIterations > UniversalMaxIterations)
    /\ ~(config.targetScore < UniversalMinTarget
          \/ config.targetScore > UniversalMaxTarget)
    /\ config.evaluationMode \in {"self", "dual"}

\* the session after an accepted POST /api/sessions/create: the orchestrator
\* is constructed from the parsed config and the status is 'created'
ServerInit ==
    /\ orch = "universal"
    /\ \E body \in CreateRequests, groqKey \in BOOLEAN :
          LET config == ParsedConfig(body) IN
          /\ ConfigAccepted(config)
          /\ maxIterations = ClampIterations(config.maxIterations)
          /\ targetScore = ClampTarget(config.targetScore)
          /\ evaluationMode = config.evaluationMode
          /\ groqEvaluator = (groqKey /\ config.evaluationMode = "dual")
    /\ pc = "idle"
    /\ status = "created"
    /\ failure = "none"
    /\ iteration = 1
    /\ currentIteration = 1
    /\ fixAttempt = 1
    /\ finalCode = NoCode
    /\ previousCode = NoCode
    /\ previousFeedback = "none"
    /\ currentCode = NoCode
    /\ lastWorkingCode = NoCode
    /\ fallbackCount = 0
    /\ errorFixed = FALSE
    /\ errorResult = NoResult
    /\ prevScreenshot = FALSE
    /\ iterationHistory = << >>
    /\ iterations = << >>
    /\ bestScore = 0
    /\ bestIteration = 1
    /\ detectCalls = 0
    /\ fixCalls = 0
    /\ captureCalls = 0
    /\ genFailedAt = 0
    /\ lastCleanCode = NoCode
    /\ fixedCode = NoCode
    /\ progress = << >>
    /\ captureBrowser = FALSE
    /\ detectorBrowser = FALSE
    /\ results = NoResults
    /\ deleted = FALSE
    /\ deletedAt = 0
    /\ starts = 0
    /\ startResponse = "none"
    /\ call = NoCall
    /\ ret = NoReturn
    /\ lastIndex = 0

\* the await points inside the body of the round loop
RoundPcs == {"generate", "detect", "fix", "capture", "evaluate"}

\* (a start handler that turns away completed sessions only)
StartRejected_CompletedOnly(st) == st = "completed"

\* the two status tests of POST /api/sessions/:id/start that answer 400
StartRejected(st) == st = "running" \/ st = "completed"

\* a run of the session's orchestrator is between its start and its return
\* or its exception
RunInProgress == pc # "idle" /\ pc # "done"

\* POST /api/sessions/:id/start: 404 for a session that is not in
\* activeSessions, 400 for one that is running or completed; otherwise the
\* status becomes 'running' and generateInBackground calls runSession on the
\* session's orchestrator, which starts from fresh local variables.  The
\* handler has no await: a request is answered in one step.
StartSession ==
    IF deleted \/ StartRejected(status)
    THEN /\ startResponse' = IF deleted THEN "not_found" ELSE "rejected"
         /\ UNCHANGED << cfgVars, pc, status, failure, iteration, currentIteration,
                         localVars, prevVars, currentCode, pixelVars, prevScreenshot,
                         bestVars, genFailedAt, lastCleanCode, fixedCode, progress,
                         historyVars, browserVars, results, deleted, deletedAt,
                         starts, pureVars >>
    ELSE /\ starts < MaxStarts
         /\ startResponse' = "started"
         /\ starts' = starts + 1
         /\ status' = "running"
         /\ pc' = "setup"
         /\ iteration' = 1
         /\ currentIteration' = 1
         /\ previousCode' = NoCode
         /\ previousFeedback' = "none"
         /\ iterations' = << >>
         /\ bestScore' = 0
         /\ bestIteration' = 1
         /\ fixAttempt' = 1
         /\ finalCode' = NoCode
         /\ errorFixed' = FALSE
         /\ errorResult' = NoResult
         /\ detectCalls' = 0
         /\ fixCalls' = 0
         /\ captureCalls' = 0
         /\ genFailedAt' = 0
         /\ lastCleanCode' = NoCode
         /\ fixedCode' = NoCode
         /\ UNCHANGED << cfgVars, failure, currentCode, pixelVars, prevScreenshot,
                         browserVars, results, progress, historyVars, deleted,
                         deletedAt, pureVars >>

\* DELETE /api/sessions/:id: 404 for a session that is not in activeSessions;
\* otherwise the upload is unlinked and the entry is removed from the map.
\* The handler does not touch the orchestrator or the sessionInfo object that
\* a running generateInBackground holds.
DeleteSession ==
    /\ ~deleted
    /\ deleted' = TRUE
    /\ deletedAt' = IF status = "running" /\ pc \in RoundPcs THEN iteration ELSE 0
    /\ UNCHANGED << cfgVars, pc, status, failure, iteration, currentIteration,
                    localVars, prevVars, currentCode, pixelVars, prevScreenshot,
                    bestVars, genFailedAt, lastCleanCode, fixedCode, progress,
                    browserVars, results, starts, startResponse, historyVars, pureVars >>

ServerNext ==
    \/ StartSession
    \/ DeleteSession
    \/ SetupSession
    \/ GenerateCode
    \/ DetectErrors
    \/ FixJavaScriptErrors
    \/ CaptureScreenshot
    \/ EvaluateIteration
    \/ FinishSession

ServerSpec == ServerInit /\ [][ServerNext]_vars

---------------------------------------------------------------------------
(* Pure functions of the program, applied to inputs drawn from bounded sets *)

\* every variable of a session at rest: the functions below touch none of them
NoSession ==
    /\ orch = "universal"
    /\ maxIterations = UniversalDefaultIterations
    /\ targetScore = UniversalDefaultTarget
    /\ evaluationMode = "self"
    /\ groqEvaluator = FALSE
    /\ pc = "idle"
    /\ status = "created"
    /\ failure = "none"
    /\ iteration = 1
    /\ currentIteration = 1
    /\ fixAttempt = 1
    /\ finalCode = NoCode
    /\ previousCode = NoCode
    /\ previousFeedback = "none"
    /\ currentCode = NoCode
    /\ lastWorkingCode = NoCode
    /\ fallbackCount = 0
    /\ errorFixed = FALSE
    /\ errorResult = NoResult
    /\ prevScreenshot = FALSE
    /\ iterationHistory = << >>
    /\ iterations = << >>
    /\ bestScore = 0
    /\ bestIteration = 1
    /\ detectCalls = 0
    /\ fixCalls = 0
    /\ captureCalls = 0
    /\ genFailedAt = 0
    /\ lastCleanCode = NoCode
    /\ fixedCode = NoCode
    /\ progress = << >>
    /\ captureBrowser = FALSE
    /\ detectorBrowser = FALSE
    /\ results = NoResults
    /\ deleted = FALSE
    /\ deletedAt = 0
    /\ starts = 0
    /\ startResponse = "none"

sessionVars ==
    << cfgVars, pc, status, failure, iteration, currentIteration, localVars,
       prevVars, currentCode, pixelVars, prevScreenshot, bestVars, genFailedAt,
       lastCleanCode, fixedCode, progress, historyVars, browserVars, results,
       serverVars >>

\* the call under evaluation returns val
Return(val) ==
    /\ ret.fn = "none"
    /\ ret' = [fn |-> call.fn, val |-> val]
    /\ UNCHANGED << call, lastIndex, sessionVars >>

(* ---- the judge's score: ImageEvaluator.compareImages and the dual mode of
        UniversalOrchestrator.evaluateIteration ---- *)

\* largest whole part of a score the judge is asked for ("from 0-10")
JudgeScale == 10

\* the number the judge writes after "score:": whole, or whole.frac with one
\* decimal digit (frac = -1 when it writes no decimal part), or no number at
\* all (whole = -1)
JudgeReplies ==
    { r \in [whole : -1 .. JudgeScale, frac : -1 .. 9] :
        /\ r.whole = -1 => r.frac = -1
        /\ r.whole = JudgeScale => r.frac \in {-1, 0} }

\* the score the judge gave, in tenths
ReplyValue(r) ==
    IF r.whole = -1 THEN 0
    ELSE 10 * r.whole + (IF r.frac = -1 THEN 0 ELSE r.frac)

\* evaluation.match(/(?:score|similarity)[:\s]*([0-9](?:\.[0-9])?)/i) and
\* scoreMatch ? parseFloat(scoreMatch[1]) : 0, in tenths: the group takes
\* ONE digit and a decimal part only if a '.' follows that digit directly
ParseScore(r) ==
    IF r.whole = -1 THEN 0
    ELSE IF r.whole >= 10 THEN 10 * (r.whole \div 10)
    ELSE 10 * r.whole + (IF r.frac = -1 THEN 0 ELSE r.frac)

\* evaluateIteration, dual mode, on a judge's reply: compareImages parses the
\* score and evaluateIteration doubles and rounds it
EvaluateDual ==
    /\ call.fn = "evaluateIteration"
    /\ Return(DualScore(ParseScore(call.arg)))

(* ---- the configuration of a UniversalOrchestrator ---- *)

\* largest number a caller passes as maxIterations or targetScore
MaxRaw == 22

\* JavaScript values a caller can pass as config.maxIterations or
\* config.targetScore: nothing, a number, or a string that is not a number
JsValues ==
    { [kind |-> "undefined", n |-> 0], [kind |-> "text", n |-> 0] }
    \cup { [kind |-> "number", n |-> k] : k \in -2 .. MaxRaw }

NaN == [kind |-> "NaN", n |-> 0]
JsNumber(k) == [kind |-> "number", n |-> k]

\* Math.min(Math.max(v || 5, 1), 7): a string that is not a number is truthy
\* and Math.max turns it into NaN, which Math.min keeps
EffectiveIterations(v) ==
    IF v.kind = "text" THEN NaN ELSE JsNumber(ClampIterations(v.n))

\* Math.min(Math.max(v || 15, 1), 20)
EffectiveTarget(v) ==
    IF v.kind = "text" THEN NaN ELSE JsNumber(ClampTarget(v.n))

\* new UniversalOrchestrator(config)
Construct ==
    /\ call.fn = "constructor"
    /\ Return([maxIterations |-> EffectiveIterations(call.arg.maxIterations),
                targetScore |-> EffectiveTarget(call.arg.targetScore)])

\* parseInt of a body field: a string that is not a number gives NaN, which
\* `|| 5` replaces like a missing field
ParseInt(v) == IF v.kind = "number" THEN v.n ELSE 0

\* POST /api/sessions/create: the config is parsed and validated, and only
\* an accepted one reaches the constructor
CreateSession ==
    /\ call.fn = "create"
    /\ LET config == ParsedConfig([maxIterations |-> ParseInt(call.arg.maxIterations),
                                   targetScore |-> ParseInt(call.arg.targetScore),
                                   evaluationMode |-> "self"])
       IN  IF ConfigAccepted(config)
           THEN Return([accepted |-> TRUE,
                        maxIterations |-> EffectiveIterations(JsNumber(config.maxIterations)),
                        targetScore |-> EffectiveTarget(JsNumber(config.targetScore))])
           ELSE Return([accepted |-> FALSE, maxIterations |-> NaN, targetScore |-> NaN])

(* ---- SimplifiedPixelAnalyzer: regions (lib/simplifiedPixelAnalyzer.js) ---- *)

\* this.colorTolerance and this.minRegionSize
colorTolerance == 50
minRegionSize == 1000
\* const margin = 3 of regionsOverlap
OverlapMargin == 3
\* const totalImageArea = 261 * 373 of shouldMergeRegions
totalImageArea == 261 * 373

Abs(a) == IF a >= 0 THEN a ELSE 0 - a

SetMin(S) == CHOOSE m \in S : \A n \in S : m <= n
SetMax(S) == CHOOSE m \in S : \A n \in S : m >= n

\* Math.max(width, height) / Math.min(width, height) > k in JavaScript
\* numbers: a zero smaller side gives Infinity (above every k) when the
\* larger side is positive and NaN (above nothing) when both are zero
AspectRatioAbove(bounds, k) ==
    LET long == Max(bounds.width, bounds.height)
        short == Min(bounds.width, bounds.height)
    IN  IF short = 0 THEN long > 0 ELSE long > k * short

\* a named colour of rgbToColorName, or its `rgb(r,g,b)` text
Named(name) == [name |-> name, r |-> 0, g |-> 0, b |-> 0]

\* the table of rgbToColorName, in its order
ColorTable ==
    << [name |-> "black",  r |-> 0,   g |-> 0,   b |-> 0,   threshold |-> 80],
       [name |-> "white",  r |-> 255, g |-> 255, b |-> 255, threshold |-> 80],
       [name |-> "red",    r |-> 255, g |-> 0,   b |-> 0,   threshold |-> 100],
       [name |-> "red",    r |-> 220, g |-> 20,  b |-> 20,  threshold |-> 60],
       [name |-> "red",    r |-> 200, g |-> 0,   b |-> 0,   threshold |-> 60],
       [name |-> "red",    r |-> 180, g |-> 0,   b |-> 0,   threshold |-> 50],
       [name |-> "yellow", r |-> 255, g |-> 255, b |-> 0,   threshold |-> 80],
       [name |-> "yellow", r |-> 240, g |-> 240, b |-> 0,   threshold |-> 60],
       [name |-> "yellow", r |-> 255, g |-> 200, b |-> 0,   threshold |-> 60],
       [name |-> "blue",   r |-> 0,   g |-> 0,   b |-> 255, threshold |-> 80],
       [name |-> "blue",   r |-> 0,   g |-> 100, b |-> 200, threshold |-> 60],
       [name |-> "gray",   r |-> 128, g |-> 128, b |-> 128, threshold |-> 80],
       [name |-> "gray",   r |-> 160, g |-> 160, b |-> 160, threshold |-> 40],
       [name |-> "gray",   r |-> 100, g |-> 100, b |-> 100, threshold |-> 40] >>

\* squared distance of two colours; distance < t is compared as
\* squared distance < t * t
Distance2(r1, g1, b1, r2, g2, b2) ==
    (r1 - r2) * (r1 - r2) + (g1 - g2) * (g1 - g2) + (b1 - b2) * (b1 - b2)

rgbToColorName(r, g, b) ==
    LET hits == { i \in 1 .. Len(ColorTable) :
                    Distance2(r, g, b, ColorTable[i].r, ColorTable[i].g, ColorTable[i].b)
                        < ColorTable[i].threshold * ColorTable[i].threshold }
    IN  IF hits # {} THEN Named(ColorTable[SetMin(hits)].name)
        ELSE IF r > 150 /\ r > g * 2 /\ r > b * 2 THEN Named("red")
        ELSE IF r > 200 /\ g > 200 /\ b < 100 THEN Named("yellow")
        ELSE IF Abs(r - g) < 30 /\ Abs(g - b) < 30 /\ r > 50 /\ r < 200 THEN Named("gray")
        ELSE IF r < 50 /\ g < 50 /\ b < 50 THEN Named("black")
        ELSE IF r > 180 /\ g > 180 /\ b > 180
                /\ Abs(r - g) < 30 /\ Abs(g - b) < 30 /\ Abs(r - b) < 30 THEN Named("white")
        ELSE [name |-> "rgb", r |-> r, g |-> g, b |-> b]

\* a region as findMajorRegions pushes it; hex and rgb are the seed pixel's
\* colour
Region(rgb, bounds, pixelCount) ==
    [color |-> rgbToColorName(rgb.r, rgb.g, rgb.b),
     rgb |-> rgb,
     bounds |-> bounds,
     area |-> bounds.width * bounds.height,
     pixelCount |-> pixelCount]

regionsOverlap(bounds1, bounds2) ==
    ~ \/ bounds1.x + bounds1.width + OverlapMargin < bounds2.x
      \/ bounds2.x + bounds2.width + OverlapMargin < bounds1.x
      \/ bounds1.y + bounds1.height + OverlapMargin < bounds2.y
      \/ bounds2.y + bounds2.height + OverlapMargin < bounds1.y

\* area > totalImageArea * 0.5 and area < totalImageArea * 0.1, in integers
shouldMergeRegions(region1, region2) ==
    LET area1 == region1.area
        area2 == region2.area
        isHorizontalLine1 == region1.bounds.width > region1.bounds.height
        isHorizontalLine2 == region2.bounds.width > region2.bounds.height
    IN  IF ~regionsOverlap(region1.bounds, region2.bounds) THEN FALSE
        ELSE IF \/ 2 * area1 > totalImageArea /\ 10 * area2 < totalImageArea
                \/ 2 * area2 > totalImageArea /\ 10 * area1 < totalImageArea
             THEN FALSE
        ELSE IF AspectRatioAbove(region1.bounds, 8) \/ AspectRatioAbove(region2.bounds, 8)
             THEN IF isHorizontalLine1 /\ isHorizontalLine2
                  THEN Abs(region1.bounds.y - region2.bounds.y) <= 5
                  ELSE IF ~isHorizontalLine1 /\ ~isHorizontalLine2
                  THEN Abs(region1.bounds.x - region2.bounds.x) <= 5
                  ELSE FALSE
        ELSE TRUE

RECURSIVE SumPixelCount(_)
SumPixelCount(regions) ==
    IF regions = << >> THEN 0
    ELSE Head(regions).pixelCount + SumPixelCount(Tail(regions))

\* mergeRegions of a list with at least one region
mergeRegions(regions) ==
    LET idx == 1 .. Len(regions)
        minX == SetMin({ regions[i].bounds.x : i \in idx })
        minY == SetMin({ regions[i].bounds.y : i \in idx })
        maxX == SetMax({ regions[i].bounds.x + regions[i].bounds.width : i \in idx })
        maxY == SetMax({ regions[i].bounds.y + regions[i].bounds.height : i \in idx })
    IN  [color |-> regions[1].color,
         rgb |-> regions[1].rgb,
         bounds |-> [x |-> minX, y |-> minY, width |-> maxX - minX, height |-> maxY - minY],
         area |-> (maxX - minX) * (maxY - minY),
         pixelCount |-> SumPixelCount(regions)]

\* the regions at the indexes of js, in the list's order
RECURSIVE Pick(_, _, _)
Pick(regions, js, j) ==
    IF j > Len(regions) THEN << >>
    ELSE (IF j \in js THEN << regions[j] >> ELSE << >>) \o Pick(regions, js, j + 1)

\* the outer loop of consolidateOverlappingRegions from index i on, as the
\* list of its `overlapping` lists: every later unused region is tested
\* against regions[i] itself, never against the growing union
RECURSIVE OverlappingFrom(_, _, _)
OverlappingFrom(regions, i, used) ==
    IF i > Len(regions) THEN << >>
    ELSE IF i \in used THEN OverlappingFrom(regions, i + 1, used)
    ELSE LET mainRegion == regions[i]
             others == { j \in (i + 1) .. Len(regions) :
                           /\ j \notin used
                           /\ mainRegion.color = regions[j].color
                           /\ shouldMergeRegions(mainRegion, regions[j]) }
         IN  << << mainRegion >> \o Pick(regions, others, i + 1) >>
             \o OverlappingFrom(regions, i + 1, used \cup {i} \cup others)

\* what the loop pushes to `consolidated` for each `overlapping` list
ConsolidateFrom(regions, i, used) ==
    LET lists == OverlappingFrom(regions, i, used)
    IN  [k \in 1 .. Len(lists) |->
            IF Len(lists[k]) > 1 THEN mergeRegions(lists[k]) ELSE lists[k][1]]

consolidateOverlappingRegions(regions) == ConsolidateFrom(regions, 1, {})

\* region.area >= maxArea * 0.02 is compared as 50 * area >= maxArea
filterSignificantRegions(regions) ==
    IF regions = << >> THEN regions
    ELSE LET maxArea == SetMax({ regions[i].area : i \in 1 .. Len(regions) })
             Keep(region) ==
                 \/ region.color = Named("red")
                 \/ AspectRatioAbove(region.bounds, 15) /\ region.area > 50
                 \/ AspectRatioAbove(region.bounds, 8) /\ region.area > 200
                 \/ /\ region.color = Named("black")
                    /\ (region.bounds.width <= 5 \/ region.bounds.height <= 5)
                    /\ region.area > 100
                 \/ 50 * region.area >= maxArea
         IN  SelectSeq(regions, Keep)

\* regions.sort((a, b) => b.area - a.area): a stable sort, largest area first
RECURSIVE InsertByArea(_, _)
InsertByArea(sorted, region) ==
    IF sorted = << >> THEN << region >>
    ELSE IF Head(sorted).area >= region.area
         THEN << Head(sorted) >> \o InsertByArea(Tail(sorted), region)
         ELSE << region >> \o sorted

RECURSIVE SortByArea(_)
SortByArea(regions) ==
    IF regions = << >> THEN << >>
    ELSE InsertByArea(SortByArea(SubSeq(regions, 1, Len(regions) - 1)),
                      regions[Len(regions)])

\* the tail of findMajorRegions, from the regions the scan pushed
MajorRegions(regions) ==
    SortByArea(filterSignificantRegions(consolidateOverlappingRegions(regions)))

\* generatedRegions.find(region => region.color === targetRegion.color): the
\* index of the FIRST region of that colour, 0 when there is none
findBestColorMatch(targetRegion, generatedRegions) ==
    LET same == { i \in 1 .. Len(generatedRegions) :
                    generatedRegions[i].color = targetRegion.color }
    IN  IF same = {} THEN 0 ELSE SetMin(same)

PositionDiff(a, b) == Abs(a.bounds.x - b.bounds.x) + Abs(a.bounds.y - b.bounds.y)
SizeDiff(a, b) ==
    Abs(a.bounds.width - b.bounds.width) + Abs(a.bounds.height - b.bounds.height)

\* a penalty that is larger for the smaller error
PositionPenalty_Reversed(positionDiff) ==
    IF positionDiff > 50 THEN 2 ELSE IF positionDiff > 20 THEN 5 ELSE 0

\* (a penalty that starts below the distance that calls for an instruction)
PositionPenalty_Tight(positionDiff) ==
    IF positionDiff > 50 THEN 5 ELSE IF positionDiff > 10 THEN 2 ELSE 0

\* if (positionDiff > 50) score -= 5; else if (positionDiff > 20) score -= 2
PositionPenalty(positionDiff) ==
    IF positionDiff > 50 THEN 5 ELSE IF positionDiff > 20 THEN 2 ELSE 0

\* what calculateSimpleScore takes off for one target region
Deduction(targetRegion, generatedRegions) ==
    LET m == findBestColorMatch(targetRegion, generatedRegions)
        positionDiff == PositionDiff(targetRegion, generatedRegions[m])
        sizeDiff == SizeDiff(targetRegion, generatedRegions[m])
    IN  IF m = 0 THEN 25
        ELSE PositionPenalty(positionDiff)
             + (IF sizeDiff > 50 THEN 5 ELSE IF sizeDiff > 20 THEN 2 ELSE 0)

RECURSIVE SumDeductions(_, _)
SumDeductions(targetRegions, generatedRegions) ==
    IF targetRegions = << >> THEN 0
    ELSE Deduction(Head(targetRegions), generatedRegions)
         + SumDeductions(Tail(targetRegions), generatedRegions)

\* targetRegions.slice(0, n)
Slice(list, n) == SubSeq(list, 1, Min(Len(list), n))

\* the sum of the deductions of all target regions, with no floor
calculateSimpleScore_NoFloor(targetRegions, generatedRegions) ==
    100 - SumDeductions(targetRegions, generatedRegions)

calculateSimpleScore(targetRegions, generatedRegions) ==
    Max(0, 100 - SumDeductions(Slice(targetRegions, 4), generatedRegions))

\* the instruction createSimpleInstructions writes for one target region, as
\* a list of zero or one instruction
Instruction(targetRegion, generatedRegions) ==
    LET m == findBestColorMatch(targetRegion, generatedRegions)
        shapeType == IF AspectRatioAbove(targetRegion.bounds, 8) THEN "line" ELSE "rectangle"
    IN  IF m = 0
        THEN << [verb |-> "Add", shapeType |-> shapeType, rgb |-> targetRegion.rgb,
                 bounds |-> targetRegion.bounds] >>
        ELSE IF \/ PositionDiff(targetRegion, generatedRegions[m]) > 15
                \/ SizeDiff(targetRegion, generatedRegions[m]) > 15
        THEN << [verb |-> "Fix", shapeType |-> shapeType, rgb |-> targetRegion.rgb,
                 bounds |-> targetRegion.bounds] >>
        ELSE << >>

RECURSIVE Instructions(_, _)
Instructions(targetRegions, generatedRegions) ==
    IF targetRegions = << >> THEN << >>
    ELSE Instruction(Head(targetRegions), generatedRegions)
         \o Instructions(Tail(targetRegions), generatedRegions)

\* every instruction of the five main regions, with no cap
createSimpleInstructions_Uncapped(targetRegions, generatedRegions) ==
    Instructions(Slice(targetRegions, 5), generatedRegions)

createSimpleInstructions(targetRegions, generatedRegions) ==
    Slice(Instructions(Slice(targetRegions, 5), generatedRegions), 4)

(* ---- SimplifiedPixelAnalyzer: from the pixels of an image to its regions ---- *)

\* const step = 2 of findMajorRegions, also the neighbour step of the fill
SampleStep == 2
\* `if (a < 128) continue`: a pixel below this alpha is transparent
AlphaThreshold == 128
\* `region.pixels.length >= 5`
MinRegionPixels == 5

\* an RGBA pixel of the raw buffer
Rgba(r, g, b, a) == [r |-> r, g |-> g, b |-> b, a |-> a]
Transparent == Rgba(0, 0, 0, 0)
White == Rgba(255, 255, 255, 255)
Red == Rgba(255, 0, 0, 255)
Blue == Rgba(0, 0, 255, 255)
Green == Rgba(0, 255, 0, 255)

\* width and height of the images analysed
ImageWidth == 36
ImageHeight == 32
\* largest number of rectangles painted on an image
MaxShapes == 2

Rect(pixel, x, y, w, h) == [pixel |-> pixel, x |-> x, y |-> y, w |-> w, h |-> h]

\* the rectangles an image is painted with
Shapes ==
    { Rect(Red, 0, 0, 16, 14), Rect(Red, 20, 16, 16, 14), Rect(Blue, 0, 0, 20, 20),
      Rect(Green, 0, 0, 36, 32), Rect(Blue, 5, 5, 1, 1) }

RECURSIVE SeqsUpTo(_, _)
SeqsUpTo(S, n) ==
    IF n = 0 THEN { << >> }
    ELSE LET shorter == SeqsUpTo(S, n - 1)
         IN  shorter \cup { Append(s, e) : s \in shorter, e \in S }

\* the images: a transparent or white canvas with rectangles painted on it
\* one after the other
Images ==
    { [background |-> bg, shapes |-> sh] :
        bg \in {Transparent, White}, sh \in SeqsUpTo(Shapes, MaxShapes) }

\* data[(y * width + x) * 4 ..]: the pixel at (x, y), that of the last
\* rectangle painted over it
RECURSIVE PixelFrom(_, _, _, _)
PixelFrom(image, k, x, y) ==
    IF k = 0 THEN image.background
    ELSE LET s == image.shapes[k]
         IN  IF x >= s.x /\ x < s.x + s.w /\ y >= s.y /\ y < s.y + s.h
             THEN s.pixel
             ELSE PixelFrom(image, k - 1, x, y)

PixelAt(image, p) == PixelFrom(image, Len(image.shapes), p[1], p[2])

\* the points the scan of findMajorRegions visits, and their raster order
SamplePoints ==
    { << SampleStep * i, SampleStep * j >> :
        i \in 0 .. ((ImageWidth - 1) \div SampleStep),
        j \in 0 .. ((ImageHeight - 1) \div SampleStep) }

RasterIndex(p) == p[2] * ImageWidth + p[1]

\* (the tests without the one on the scan's visited set)
Fills_IgnoreVisited(image, p, seed, visited) ==
    /\ p[1] >= 0 /\ p[1] < ImageWidth /\ p[2] >= 0 /\ p[2] < ImageHeight
    /\ LET px == PixelAt(image, p)
       IN  /\ px.a >= AlphaThreshold
           /\ Distance2(px.r, px.g, px.b, seed.r, seed.g, seed.b)
                <= colorTolerance * colorTolerance

\* the tests of floodFillRegion on one dequeued point: not visited, inside
\* the image, opaque, and within colorTolerance of the seed's colour
Fills(image, p, seed, visited) ==
    /\ p \notin visited
    /\ p[1] >= 0 /\ p[1] < ImageWidth /\ p[2] >= 0 /\ p[2] < ImageHeight
    /\ LET px == PixelAt(image, p)
       IN  /\ px.a >= AlphaThreshold
           /\ Distance2(px.r, px.g, px.b, seed.r, seed.g, seed.b)
                <= colorTolerance * colorTolerance

Neighbours(p) ==
    { << p[1] + SampleStep, p[2] >>, << p[1] - SampleStep, p[2] >>,
      << p[1], p[2] + SampleStep >>, << p[1], p[2] - SampleStep >> }

\* the breadth-first fill: pixels already taken, and the last layer added
RECURSIVE Fill(_, _, _, _, _)
Fill(image, seed, visited, pixels, layer) ==
    LET next == { q \in UNION { Neighbours(p) : p \in layer } :
                    q \notin pixels /\ Fills(image, q, seed, visited) }
    IN  IF next = {} THEN pixels
        ELSE Fill(image, seed, visited, pixels \cup next, next)

\* floodFillRegion from a start point the scan found unvisited and opaque
floodFillRegion(image, start, visited) ==
    Fill(image, PixelAt(image, start), visited, {start}, {start})

calculateBounds(samples) ==
    LET xs == { s[1] : s \in samples }
        ys == { s[2] : s \in samples }
    IN  [x |-> SetMin(xs), y |-> SetMin(ys),
         width |-> SetMax(xs) - SetMin(xs), height |-> SetMax(ys) - SetMin(ys)]

\* (a region is pushed whatever its area)
MinAreaThreshold_None(color, bounds) == 0

\* let minAreaThreshold ... of findMajorRegions
MinAreaThreshold(color, bounds) ==
    IF AspectRatioAbove(bounds, 20) THEN 50
    ELSE IF AspectRatioAbove(bounds, 8) THEN 200
    ELSE IF color = Named("red") THEN 150
    ELSE IF color = Named("black") /\ (bounds.width <= 5 \/ bounds.height <= 5) THEN 100
    ELSE minRegionSize

\* the scan of findMajorRegions: the next start point is the first sample
\* point in raster order that is neither visited nor transparent
RECURSIVE Scan(_, _)
Scan(image, visited) ==
    LET starts_ == { p \in SamplePoints :
                       p \notin visited /\ PixelAt(image, p).a >= AlphaThreshold }
    IN  IF starts_ = {} THEN << >>
        ELSE LET start == CHOOSE p \in starts_ :
                             \A q \in starts_ : RasterIndex(p) <= RasterIndex(q)
                 px == PixelAt(image, start)
                 pixels == floodFillRegion(image, start, visited)
                 bounds == calculateBounds(pixels)
                 region == Region([r |-> px.r, g |-> px.g, b |-> px.b], bounds,
                                  Cardinality(pixels))
                 pushed == /\ Cardinality(pixels) >= MinRegionPixels
                           /\ region.area >= MinAreaThreshold(region.color, bounds)
             IN  (IF pushed THEN << region >> ELSE << >>)
                 \o Scan(image, visited \cup pixels)

findMajorRegions(image) == MajorRegions(Scan(image, {}))

\* an image has a pixel the analyzer does not take for transparent
HasOpaquePixel(image) ==
    \E x \in 0 .. (ImageWidth - 1), y \in 0 .. (ImageHeight - 1) :
        PixelAt(image, << x, y >>).a >= AlphaThreshold

FindMajorRegions ==
    /\ call.fn = "findMajorRegions"
    /\ Return(findMajorRegions(call.arg))

\* compareAndGenerateInstructions: both images analysed, then instructions
\* and score
CompareAndGenerateInstructions ==
    /\ call.fn = "compareAndGenerateInstructions"
    /\ LET targetRegions == findMajorRegions(call.arg.target)
           generatedRegions == findMajorRegions(call.arg.generated)
       IN  Return([targetRegions |-> targetRegions,
                   generatedRegions |-> generatedRegions,
                   instructions |-> createSimpleInstructions(targetRegions, generatedRegions),
                   score |-> calculateSimpleScore(targetRegions, generatedRegions)])

\* longest list of regions consolidated on its own
MaxRegions == 3

\* regions found on a target of 261 x 373 pixels
RegionBox(rgb, x, y, width, height) ==
    Region(rgb, [x |-> x, y |-> y, width |-> width, height |-> height],
           ((width \div SampleStep) + 1) * ((height \div SampleStep) + 1))

BlueRgb == [r |-> 0, g |-> 0, b |-> 255]
\* another colour rgbToColorName calls blue, too far from BlueRgb for one fill
SteelRgb == [r |-> 0, g |-> 100, b |-> 200]
WhiteRgb == [r |-> 255, g |-> 255, b |-> 255]

RegionCatalogue ==
    { RegionBox(BlueRgb, 0, 0, 40, 40), RegionBox(SteelRgb, 42, 0, 40, 40),
      RegionBox(BlueRgb, 84, 0, 40, 40), RegionBox(BlueRgb, 0, 100, 120, 4),
      RegionBox(WhiteRgb, 0, 0, 260, 372), RegionBox(WhiteRgb, 10, 10, 60, 60),
      RegionBox(WhiteRgb, 5, 5, 150, 150) }

\* lists of distinct regions
RegionLists ==
    { R \in SeqsUpTo(RegionCatalogue, MaxRegions) :
        \A i, j \in 1 .. Len(R) : i # j => R[i] # R[j] }

\* consolidateOverlappingRegions on a list, and again on its own result, with
\* the regions it merged into each region of the first result
ConsolidateOverlappingRegions ==
    /\ call.fn = "consolidateOverlappingRegions"
    /\ LET once == consolidateOverlappingRegions(call.arg)
       IN  Return([once |-> once, twice |-> consolidateOverlappingRegions(once),
                   overlapping |-> OverlappingFrom(call.arg, 1, {})])

(* ---- score and instructions of two region sets ---- *)

RedRgb == [r |-> 255, g |-> 0, b |-> 0]

\* regions of analysed images, largest area first, the order findMajorRegions
\* returns them in
ScoreCatalogue ==
    << RegionBox(WhiteRgb, 0, 0, 200, 200), RegionBox(RedRgb, 0, 0, 100, 40),
       RegionBox(RedRgb, 0, 0, 40, 40), RegionBox(RedRgb, 10, 5, 40, 40),
       RegionBox(RedRgb, 30, 0, 40, 40), RegionBox(RedRgb, 60, 0, 40, 40),
       RegionBox(BlueRgb, 0, 50, 40, 40) >>

\* most regions of a target image, and of a generated image
MaxTargetRegions == 5
MaxGeneratedRegions == 2

\* the region sets of target images: regions of the catalogue in its order
TargetRegionLists ==
    { Pick(ScoreCatalogue, js, 1) :
        js \in { k \in SUBSET (1 .. Len(ScoreCatalogue)) : Cardinality(k) <= MaxTargetRegions } }

\* the region sets of generated images: distinct regions in any order
GeneratedRegionLists ==
    { G \in SeqsUpTo({ ScoreCatalogue[i] : i \in 1 .. Len(ScoreCatalogue) },
                     MaxGeneratedRegions) :
        \A i, j \in 1 .. Len(G) : i # j => G[i] # G[j] }

\* the two calls compareAndGenerateInstructions makes on the region sets of
\* the analysed images
CompareRegions ==
    /\ call.fn = "compareRegions"
    /\ Return([instructions |-> createSimpleInstructions(call.arg.target, call.arg.generated),
               score |-> calculateSimpleScore(call.arg.target, call.arg.generated)])

(* ---- the flood fills of one findMajorRegions scan ---- *)

\* the while loop of floodFillRegion: queue is the queue, pixels the points
\* pushed so far (regionVisited), visited the scan's visited set as it was
\* when the fill began, steps the number of loop iterations made. The
\* iterations that dequeue a point and `continue` change nothing but the
\* queue, so they are taken together with the next iteration that pushes a
\* point; the result is the region's points and the number of iterations
\* the loop made before the queue was empty
RECURSIVE FloodLoop(_, _, _, _, _, _)
FloodLoop(image, seed, visited, pixels, queue, steps) ==
    LET accepted == { i \in 1 .. Len(queue) :
                        queue[i] \notin pixels /\ Fills(image, queue[i], seed, visited) }
    IN  IF accepted = {} THEN [pixels |-> pixels, steps |-> steps + Len(queue)]
        ELSE LET i == SetMin(accepted)
                 p == queue[i]
             IN  FloodLoop(image, seed, visited, pixels \cup {p},
                           SubSeq(queue, i + 1, Len(queue))
                               \o << << p[1] + SampleStep, p[2] >>,
                                     << p[1] - SampleStep, p[2] >>,
                                     << p[1], p[2] + SampleStep >>,
                                     << p[1], p[2] - SampleStep >> >>,
                           steps + i)

\* the scan of findMajorRegions as the list of its floodFillRegion calls:
\* the start point of each, the region it returned, whether the region was
\* pushed to `regions`, and the number of iterations of its loop
RECURSIVE ScanFills(_, _)
ScanFills(image, visited) ==
    LET starts_ == { p \in SamplePoints :
                       p \notin visited /\ PixelAt(image, p).a >= AlphaThreshold }
    IN  IF starts_ = {} THEN << >>
        ELSE LET start == CHOOSE p \in starts_ :
                             \A q \in starts_ : RasterIndex(p) <= RasterIndex(q)
                 px == PixelAt(image, start)
                 fill == FloodLoop(image, px, visited, {}, << start >>, 0)
                 bounds == calculateBounds(fill.pixels)
                 region == Region([r |-> px.r, g |-> px.g, b |-> px.b], bounds,
                                  Cardinality(fill.pixels))
                 pushed == /\ Cardinality(fill.pixels) >= MinRegionPixels
                           /\ region.area >= MinAreaThreshold(region.color, bounds)
             IN  << [start |-> start, pixels |-> fill.pixels, steps |-> fill.steps,
                     bounds |-> bounds, pushed |-> pushed] >>
                 \o ScanFills(image, visited \cup fill.pixels)

\* shades of blue less than colorTolerance apart from one to the next, but
\* not from the first to the third
Blue2 == Rgba(0, 0, 215, 255)
Blue3 == Rgba(0, 0, 175, 255)

\* most rectangles painted on an image whose fills are listed
MaxScanShapes == 2

\* the rectangles these images are painted with: three stripes side by
\* side, two red lines one sample wide that meet in a corner, and a blue
\* line one sample wide
Stripe1 == Rect(Blue, 0, 0, 4, 6)
Stripe2 == Rect(Blue2, 4, 0, 4, 6)
Stripe3 == Rect(Blue3, 8, 0, 4, 6)
RedColumn == Rect(Red, 20, 0, 2, 14)
RedRow == Rect(Red, 20, 0, 16, 2)
BlueColumn == Rect(Blue, 30, 4, 2, 12)

ScanShapes == { Stripe1, Stripe2, Stripe3, RedColumn, RedRow, BlueColumn }

\* the images whose fills are listed: up to MaxScanShapes rectangles on a
\* transparent canvas, the three stripes, and the red corner with the blue
\* line beside it
ScanImages ==
    { [background |-> Transparent, shapes |-> sh] :
        sh \in SeqsUpTo(ScanShapes, MaxScanShapes) }
    \cup { [background |-> Transparent, shapes |-> << Stripe1, Stripe2, Stripe3 >>],
           [background |-> Transparent, shapes |-> << RedColumn, RedRow, BlueColumn >>] }

\* findMajorRegions on an image, with the flood fills of its scan
ScanRegions ==
    /\ call.fn = "scanRegions"
    /\ Return([fills |-> ScanFills(call.arg, {}),
                scanned |-> Scan(call.arg, {}),
                regions |-> findMajorRegions(call.arg)])

(* ---- SecurityValidator.detectPromptInjection ---- *)

\* longest text checked, and most calls made on one validator
MaxTextLen == 2
MaxCalls == 3

\* the characters of a text: a letter that none of the patterns matches on
\* its own, and a character outside \x20-\x7E, \n, \r, \t
Chars == {"a", "non_printable"}

Texts == SeqsUpTo(Chars, MaxTextLen)

\* pattern.test(text) for /[^\x20-\x7E\n\r\t]/g with the pattern's lastIndex
\* at li: a regexp with the g flag searches from lastIndex on, leaves
\* lastIndex behind the match, and resets it to 0 when it finds none
GlobalTest(text, li) ==
    LET hits == { i \in (li + 1) .. Len(text) : text[i] = "non_printable" }
    IN  IF hits = {} THEN [matched |-> FALSE, lastIndex |-> 0]
        ELSE [matched |-> TRUE, lastIndex |-> SetMin(hits)]

\* the result object of detectPromptInjection for a text of Texts, which none
\* of the other patterns, the repetition test or the long-word test matches
DetectionResult(matched) ==
    [isSafe |-> ~matched,
     violations |-> IF matched THEN << "[^\\x20-\\x7E\\n\\r\\t]" >> ELSE << >>]

\* one call of detectPromptInjection on a validator: call.arg lists the texts
\* of the calls made on it one after the other, ret.val the results returned
\* so far
DetectPromptInjection ==
    /\ call.fn = "detectPromptInjection"
    /\ LET done == IF ret.fn = "none" THEN << >> ELSE ret.val
           t == GlobalTest(call.arg[Len(done) + 1], lastIndex)
       IN  /\ Len(done) < Len(call.arg)
           /\ ret' = [fn |-> call.fn, val |-> Append(done, DetectionResult(t.matched))]
           /\ lastIndex' = t.lastIndex
    /\ UNCHANGED << call, sessionVars >>

PureInit ==
    /\ NoSession
    /\ ret = NoReturn
    /\ lastIndex = 0
    /\ \/ \E r \in JudgeReplies : call = [fn |-> "evaluateIteration", arg |-> r]
       \/ \E i \in JsValues, t \in JsValues, f \in {"constructor", "create"} :
             call = [fn |-> f, arg |-> [maxIterations |-> i, targetScore |-> t]]
       \/ \E image \in Images : call = [fn |-> "findMajorRegions", arg |-> image]
       \/ \E target \in Images, generated \in Images :
             /\ target = generated \/ Len(target.shapes) + Len(generated.shapes) <= 1
             /\ call = [fn |-> "compareAndGenerateInstructions",
                        arg |-> [target |-> target, generated |-> generated]]
       \/ \E R \in RegionLists : call = [fn |-> "consolidateOverlappingRegions", arg |-> R]
       \/ \E T \in TargetRegionLists, G \in GeneratedRegionLists :
             call = [fn |-> "compareRegions", arg |-> [target |-> T, generated |-> G]]
       \/ \E image \in ScanImages : call = [fn |-> "scanRegions", arg |-> image]
       \/ \E texts \in SeqsUpTo(Texts, MaxCalls) :
             texts # << >> /\ call = [fn |-> "detectPromptInjection", arg |-> texts]

PureNext ==
    \/ EvaluateDual
    \/ Construct
    \/ CreateSession
    \/ FindMajorRegions
    \/ CompareAndGenerateInstructions
    \/ ConsolidateOverlappingRegions
    \/ CompareRegions
    \/ DetectPromptInjection
    \/ ScanRegions

PureSpec == PureInit /\ [][PureNext]_vars

---------------------------------------------------------------------------
(* Properties *)

\* the orchestrators that score their rounds (the Gemini-only loop does not)
Scoring == orch # "gemini"

Rounds == 1..Len(iterations)
ScoreOf(k) == iterations[k].score
MaxScore == CHOOSE m \in { ScoreOf(k) : k \in Rounds } :
                \A k \in Rounds : ScoreOf(k) <= m
SomeRoundReachedTarget ==
    \E k \in Rounds : ScoreOf(k) >= targetScore

\* the run has left the round loop through the loop's own control flow
\* (the break or the loop test), not through an exception
LoopLeft == pc = "summary" \/ status = "completed"

\* C1: the number of rounds entered and the number of rounds recorded never
\* exceed maxIterations, and a run of UniversalOrchestrator or of the pixel
\* feedback loop that returns normally has recorded exactly maxIterations
\* rounds unless some round's score was >= targetScore
C1_RoundBudget ==
    /\ currentIteration <= maxIterations
    /\ Len(iterations) <= maxIterations
    /\ \A k \in Rounds : iterations[k].iteration = k
    /\ (orch \in {"universal", "pixel"} /\ status = "completed")
          => (Len(iterations) = maxIterations \/ SomeRoundReachedTarget)

\* a pixel feedback loop that returned after all its 10 rounds, none of which
\* reached the target
C1_Witness ==
    /\ orch = "pixel"
    /\ status = "completed"
    /\ Len(iterations) = maxIterations
    /\ ~SomeRoundReachedTarget

\* C2: after every completed round, bestScore is the maximum of the scores of
\* the rounds completed so far
C2_BestScoreIsMax ==
    (Scoring /\ Len(iterations) > 0) => bestScore = MaxScore

\* three rounds are complete, the second scored more than the first and the
\* third less than the second
C2_Witness ==
    /\ Len(iterations) >= 3
    /\ ScoreOf(1) < ScoreOf(2)
    /\ ScoreOf(3) < ScoreOf(2)
    /\ bestScore = ScoreOf(2)

\* C3: once a round is complete, bestIteration is a completed round whose
\* score is the maximum over the completed rounds, and no earlier round has
\* that score
C3_BestIterationEarliestMax ==
    (Scoring /\ Len(iterations) > 0) =>
        /\ bestIteration \in Rounds
        /\ ScoreOf(bestIteration) = MaxScore
        /\ \A k \in Rounds : k < bestIteration => ScoreOf(k) < MaxScore

\* two rounds share the maximum and a lower-scoring round precedes them
C3_Witness ==
    /\ Len(iterations) >= 3
    /\ ScoreOf(1) < ScoreOf(2)
    /\ ScoreOf(3) = ScoreOf(2)
    /\ MaxScore = ScoreOf(2)
    /\ bestIteration = 2

C5_RepairLoopBounded ==
    /\ detectCalls + captureCalls <= MaxFixAttempts + 1
    /\ fixCalls <= MaxFixAttempts
    /\ fixAttempt <= MaxFixAttempts + 1

\* a round of the pixel loop that used all its 5 checks and then captured
C5_Witness ==
    /\ orch = "pixel"
    /\ detectCalls = PixelMaxFixAttempts
    /\ fixCalls = PixelMaxFixAttempts - 1
    /\ captureCalls = 1

\* a step in which the repair loop uses up its attempts: the last permitted
\* check still reports errors
RepairExhausted ==
    /\ pc = "detect"
    /\ pc' = "capture"
    /\ AttemptsExhausted(fixAttempt, MaxFixAttempts)
    /\ ~CleanRender(errorResult')

C7_BrokenRoundCompletes ==
    (orch = "universal" /\ errorResult.hasErrors)
        => ~(status = "failed" /\ failure = "no_canvas")

\* C8: in UniversalOrchestrator a failed generation call in a round k > 1
\* does not end the session
C8_GenerationFailureNotFatal ==
    (orch = "universal" /\ genFailedAt > 1)
        => ~(status = "failed" /\ failure = "generation")

\* C9: once the generation call of round 1 has failed, the session is failed
\* and no second round is entered (in every orchestrator, the Gemini-only
\* loop included)
C9_FirstRoundFailureFails ==
    genFailedAt = 1 => (status = "failed" /\ iteration = 1)

\* C10: in UniversalOrchestrator, in either evaluation mode, a failed scoring
\* call does not fail the session
C10_ScoringFailureNotFatal ==
    orch = "universal" => ~(status = "failed" /\ failure = "evaluation")

C12_CancelStopsNextRound ==
    deletedAt > 0 => ~(pc \in RoundPcs /\ iteration > deletedAt)

\* C13: when a run has delivered its result or its error, the browsers of the
\* SketchCapture and of the ErrorDetector are closed
C13_BrowsersClosedAtExit ==
    pc = "done" => (~captureBrowser /\ ~detectorBrowser)

\* C14: completed and failed are terminal: no step changes a status that is
\* completed or failed
C14_TerminalStatus ==
    [][ (status = "completed" \/ status = "failed") => status' = status ]_vars

\* C15: the score evaluateIteration returns in dual mode is an integer of
\* 0..20 and is the rounded double of the score the judge gave
C15_DualScoreIsDoubledJudgeScore ==
    ret.fn = "evaluateIteration" =>
        /\ ret.val \in 0 .. UniversalMaxTarget
        /\ ret.val = DualScore(ReplyValue(call.arg))

\* C16: whatever a caller passes as maxIterations and targetScore, the
\* constructed orchestrator's maxIterations is a number of 1..7 and its
\* targetScore a number of 1..20
C16_ConfigClamped ==
    ret.fn = "constructor" =>
        /\ ret.val.maxIterations.kind = "number"
        /\ ret.val.maxIterations.n \in UniversalMinIterations .. UniversalMaxIterations
        /\ ret.val.targetScore.kind = "number"
        /\ ret.val.targetScore.n \in UniversalMinTarget .. UniversalMaxTarget

\* C17: scoring a region set against itself gives the maximum score: when the
\* target image and the generated image are the same image, so that the
\* analyzer produces the same region set T for both, calculateSimpleScore(T, T)
\* is 100.
C17_SelfScoreIsMaximum ==
    (ret.fn = "compareAndGenerateInstructions"
        /\ ret.val.targetRegions = ret.val.generatedRegions)
    => ret.val.score = 100

\* C18: when the generated image's region set is identical to the target's,
\* createSimpleInstructions returns an empty instruction list.
C18_IdenticalRegionsNoInstructions ==
    (ret.fn = "compareAndGenerateInstructions"
        /\ ret.val.targetRegions = ret.val.generatedRegions)
    => ret.val.instructions = << >>

\* C19: consolidation is idempotent: consolidating the result of
\* consolidateOverlappingRegions again returns that same result, for every
\* list of regions.
C19_ConsolidationIdempotent ==
    ret.fn = "consolidateOverlappingRegions" => ret.val.twice = ret.val.once

\* C20: findMajorRegions returns a non-empty list for every image with at
\* least one pixel whose alpha is at or above the opacity threshold, and an
\* empty list for a fully transparent image.
C20_OpaqueImageHasRegions ==
    ret.fn = "findMajorRegions"
    => IF HasOpaquePixel(call.arg) THEN ret.val # << >> ELSE ret.val = << >>

\* C21: for a target with one region and a generated image with one region of
\* the same colour, a region of the same colour and size placed farther from
\* the target's position (by the positionDiff the score measures,
\* |dx| + |dy|) never scores higher than the nearer one.
C21_ScoreMonotoneInDistance ==
    ( /\ ret.fn = "compareRegions"
      /\ Len(call.arg.target) = 1
      /\ Len(call.arg.generated) = 1
      /\ call.arg.generated[1].color = call.arg.target[1].color )
    => \A i \in 1 .. Len(ScoreCatalogue) :
          LET target == call.arg.target[1]
              near == call.arg.generated[1]
              far == ScoreCatalogue[i]
          IN  ( /\ far.color = near.color
                /\ far.bounds.width = near.bounds.width
                /\ far.bounds.height = near.bounds.height
                /\ PositionDiff(target, far) > PositionDiff(target, near) )
              => calculateSimpleScore(call.arg.target, << far >>) <= ret.val.score

\* a generated region near its target scored above the same region moved away
C21_Witness ==
    /\ ret.fn = "compareRegions"
    /\ Len(call.arg.target) = 1
    /\ Len(call.arg.generated) = 1
    /\ call.arg.generated[1].color = call.arg.target[1].color
    /\ PositionDiff(call.arg.target[1], call.arg.generated[1]) > 0
    /\ \E i \in 1 .. Len(ScoreCatalogue) :
          /\ ScoreCatalogue[i].color = call.arg.generated[1].color
          /\ ScoreCatalogue[i].bounds.width = call.arg.generated[1].bounds.width
          /\ ScoreCatalogue[i].bounds.height = call.arg.generated[1].bounds.height
          /\ PositionDiff(call.arg.target[1], ScoreCatalogue[i])
                > PositionDiff(call.arg.target[1], call.arg.generated[1])
          /\ calculateSimpleScore(call.arg.target, << ScoreCatalogue[i] >>) < ret.val.score

\* C22: when exactly one of the target's top regions (the four the score
\* looks at) has no generated region of its colour and every other target
\* region is found unchanged among the generated regions, the score is
\* 100 - 25 and the instruction list is exactly one Add instruction carrying
\* that region's x, y, width and height.
C22_OneMissingRegion ==
    ( /\ ret.fn = "compareRegions"
      /\ \E k \in 1 .. Min(Len(call.arg.target), 4) :
            /\ \A g \in 1 .. Len(call.arg.generated) :
                  call.arg.generated[g].color # call.arg.target[k].color
            /\ \A j \in (1 .. Len(call.arg.target)) \ {k} :
                  \E g \in 1 .. Len(call.arg.generated) :
                      call.arg.generated[g] = call.arg.target[j] )
    => /\ ret.val.score = 100 - 25
       /\ Len(ret.val.instructions) = 1
       /\ ret.val.instructions[1].verb = "Add"
       /\ \E k \in 1 .. Min(Len(call.arg.target), 4) :
             /\ \A g \in 1 .. Len(call.arg.generated) :
                   call.arg.generated[g].color # call.arg.target[k].color
             /\ ret.val.instructions[1].bounds = call.arg.target[k].bounds

\* C23: for all target and generated region sets calculateSimpleScore
\* returns an integer of 0..100.
C23_ScoreInRange ==
    ret.fn = "compareRegions" => ret.val.score \in 0 .. 100

\* the score of a target whose four main regions are all missing: the
\* deductions add up to the whole scale
C23_Witness ==
    /\ ret.fn = "compareRegions"
    /\ Len(call.arg.target) > 4
    /\ call.arg.generated = << >>
    /\ ret.val.score = 0

\* C24: createSimpleInstructions returns at most 4 instructions, and no two
\* of them are for the same target region.
C24_InstructionsCapped ==
    ret.fn = "compareRegions"
    => /\ Len(ret.val.instructions) <= 4
       /\ \A i, j \in 1 .. Len(ret.val.instructions) :
             i # j => ret.val.instructions[i].bounds # ret.val.instructions[j].bounds
       /\ \A i \in 1 .. Len(ret.val.instructions) :
             \E t \in 1 .. Len(call.arg.target) :
                 ret.val.instructions[i].bounds = call.arg.target[t].bounds

\* five target regions that each call for an instruction, four returned
C24_Witness ==
    /\ ret.fn = "compareRegions"
    /\ Len(call.arg.target) >= 5
    /\ \A t \in 1 .. 5 : Instruction(call.arg.target[t], call.arg.generated) # << >>
    /\ Len(ret.val.instructions) = 4

\* C30: consolidation never merges a region whose area is above 50% of the
\* image area with a region whose area is below 10% of it: no list of regions
\* merged into one holds such a pair (the image area is the 261 x 373 the
\* analyzer assumes).
C30_NoLargeWithSmall ==
    ret.fn = "consolidateOverlappingRegions"
    => \A k \in 1 .. Len(ret.val.overlapping) :
          \A i, j \in 1 .. Len(ret.val.overlapping[k]) :
              ~ /\ 2 * ret.val.overlapping[k][i].area > totalImageArea
                /\ 10 * ret.val.overlapping[k][j].area < totalImageArea

\* C25: in the error-repair loop of every orchestrator, a render check that
\* reports errors while attempts remain is followed by a call of the repair
\* operation, and when the loop goes back to the render check the code it
\* checks next is the code that repair call returned.
C25_RepairResultRendered ==
    [][ /\ ( /\ pc = "detect"
             /\ ~CleanRender(errorResult')
             /\ ~AttemptsExhausted(fixAttempt, MaxFixAttempts) )
           => pc' = "fix"
        /\ (pc = "fix" /\ pc' = "detect")
           => finalCode' = fixedCode' ]_vars

\* C26: in UniversalOrchestrator the repair loop hands code whose last render
\* check reported errors on to the capture only after it has made all of its
\* maxFixAttempts render checks.
C26_NoEarlyGiveUp ==
    [][ ( /\ orch = "universal"
          /\ (pc = "detect" \/ pc = "fix")
          /\ pc' = "capture"
          /\ ~CleanRender(errorResult') )
        => detectCalls' = UniversalMaxFixAttempts ]_vars

\* C27: a detectErrors call whose page load times out or fails returns an
\* error result (hasErrors true, a load_error entry, canvasExists false); the
\* call does not throw and the session does not fail: the repair loop goes on
\* to the repair call, or to the capture when that was its last attempt.
C27_LoadFailureIsErrorResult ==
    [][ (pc = "detect" /\ "load_error" \in errorResult'.errors)
        => /\ errorResult'.hasErrors
           /\ ~errorResult'.canvasExists
           /\ status' = status
           /\ failure' = failure
           /\ pc' = IF AttemptsExhausted(fixAttempt, MaxFixAttempts)
                    THEN "capture" ELSE "fix" ]_vars

\* a UniversalOrchestrator session about to repair code whose page did not load
C27_Witness ==
    /\ orch = "universal"
    /\ pc = "fix"
    /\ status = "running"
    /\ errorResult.errors = {"load_error"}
    /\ errorResult.hasErrors
    /\ ~errorResult.canvasExists

\* C28: every result of detectErrors with hasErrors false has canvasExists
\* true, and a page without a canvas is reported with hasErrors true even
\* when no console error or exception was observed (its errors then hold
\* the no_canvas entry alone).
C28_NoCanvasIsError ==
    /\ ~errorResult.hasErrors => errorResult.canvasExists
    /\ ~errorResult.canvasExists => errorResult.hasErrors
    /\ errorResult.hasErrors = (errorResult.errors # {})

\* the pixel loop about to repair code whose page loaded without any error
\* but drew no canvas
C28_Witness ==
    /\ orch = "pixel"
    /\ pc = "fix"
    /\ errorResult.errors = {"no_canvas"}
    /\ errorResult.hasErrors
    /\ ~errorResult.canvasExists

\* C29: the iteration history of the progress record gains or changes an
\* entry only in the step that completes a round's evaluation, and the entry
\* is that round's, with the score just recorded; every entry carries a score
\* and no two entries have the same round number.
C29_ProgressEntryAfterEvaluation ==
    [][ /\ \A i, j \in 1 .. Len(progress') :
              i # j => progress'[i].iteration # progress'[j].iteration
        /\ \A i \in 1 .. Len(progress') : progress'[i].score \in 0 .. UniversalMaxTarget
        /\ progress' # progress
              => /\ pc = "evaluate"
                 /\ iterations' = Append(iterations, iterations'[Len(iterations')])
                 /\ iterations'[Len(iterations')].iteration = iteration
                 /\ \E i \in 1 .. Len(progress') :
                       /\ progress'[i] = [iteration |-> iteration,
                                          score |-> iterations'[Len(iterations')].score]
                       /\ \A j \in (1 .. Len(progress)) \ {i} : progress'[j] = progress[j]
                       /\ Len(progress') \in {Len(progress), i} ]_vars

\* a session started again after a failed run: the entry of round 1 has been
\* replaced by the new run's, the entry of round 2 is still the old run's
C29_Witness ==
    /\ starts = 2
    /\ Len(iterations) = 1
    /\ Len(progress) = 2
    /\ progress[1] = [iteration |-> 1, score |-> iterations[1].score]
    /\ progress[2].iteration = 2

\* the last n entries of a list
LastEntries(list, n) ==
    IF Len(list) <= n THEN list ELSE SubSeq(list, Len(list) - n + 1, Len(list))

\* C31: in the Gemini-only loop the iteration history never holds more than 3
\* entries and its entries are in round order; it changes only when a round's
\* visual analysis succeeded, and it is then the previous history with that
\* analysis added, cut to its 3 most recent entries.
C31_HistoryWindow ==
    [][ /\ Len(iterationHistory') <= 3
        /\ \A i, j \in 1 .. Len(iterationHistory') :
              i < j => iterationHistory'[i] < iterationHistory'[j]
        /\ iterationHistory' =
              IF pc = "improve"
              THEN LastEntries(Append(iterationHistory, iteration - 1), 3)
              ELSE iterationHistory ]_vars

\* a comparison call is about to get a history of three analyses, the oldest
\* ones dropped and one round in between without a successful analysis
C31_Witness ==
    /\ orch = "gemini"
    /\ pc = "generate"
    /\ iteration = 7
    /\ iterationHistory = << 2, 4, 5 >>

\* C32: when a UniversalOrchestrator session has returned and its last round
\* took the early stop (its score was >= targetScore), the returned
\* bestIteration is that last round; and in every returned result
\* targetReached is true exactly when the score of the last round executed is
\* >= targetScore.
C32_EarlyStopIsBest ==
    (orch = "universal" /\ status = "completed")
    => /\ Len(iterations) >= 1
       /\ ScoreOf(Len(iterations)) >= targetScore
             => /\ results.bestIteration = iterations[Len(iterations)].iteration
                /\ results.bestScore = ScoreOf(Len(iterations))
       /\ results.targetReached = (ScoreOf(Len(iterations)) >= targetScore)

\* a session that stopped in its second round, whose score was exactly the
\* target, with a round to spare
C32_Witness ==
    /\ orch = "universal"
    /\ status = "completed"
    /\ Len(iterations) = 2
    /\ maxIterations > 2
    /\ ScoreOf(1) > 0
    /\ ScoreOf(2) = targetScore
    /\ results.bestIteration = 2
    /\ results.targetReached

C34_OneRunAtATime ==
    [][ /\ RunInProgress' => status' = "running"
        /\ starts' # starts
              => /\ ~RunInProgress
                 /\ starts' = starts + 1
                 /\ startResponse' = "started"
        /\ (status = "running" \/ status = "completed")
              => /\ starts' = starts
                 /\ startResponse' # startResponse
                       => /\ startResponse' = IF deleted THEN "not_found" ELSE "rejected"
                          /\ pc' = pc
                          /\ status' = status ]_vars

\* a start request was rejected while the session's run was inside a round
C34_Witness ==
    /\ startResponse = "rejected"
    /\ status = "running"
    /\ pc = "evaluate"
    /\ starts = 1
    /\ ~deleted

\* the pixel loop's round went on with the fallback: errorFixed is set
\* although the round's last render check reported errors
FallbackApplied == orch = "pixel" /\ errorFixed /\ errorResult.hasErrors

\* C35: in the pixel feedback loop lastWorkingCode is null or the code the
\* error detector last reported free of errors; the fallback is applied at
\* most maxFallbacks (3) times in a session, one at a time, at the end of a
\* repair loop whose last check reported errors; and a round in which it was
\* applied renders lastWorkingCode and hands it to the next round as
\* previousCode.
C35_FallbackToWorkingCode ==
    [][ orch = "pixel" =>
          /\ lastWorkingCode' = lastCleanCode'
          /\ fallbackCount' <= PixelMaxFallbacks
          /\ fallbackCount' # fallbackCount
                => /\ fallbackCount' = fallbackCount + 1
                   /\ pc' = "capture"
                   /\ FallbackApplied'
          /\ FallbackApplied'
                => /\ lastWorkingCode' # NoCode
                   /\ finalCode' = lastWorkingCode'
          /\ (FallbackApplied /\ pc = "evaluate" /\ pc' = "generate")
                => previousCode' = lastWorkingCode ]_vars

\* the third fallback of a session has been rendered and is being scored
C35_Witness ==
    /\ FallbackApplied
    /\ pc = "evaluate"
    /\ fallbackCount = PixelMaxFallbacks
    /\ finalCode = lastWorkingCode
    /\ iteration > PixelMaxFallbacks

\* C36: for all target and generated region sets, when
\* createSimpleInstructions returns an empty list calculateSimpleScore
\* returns 100, on region sets given directly and on those the analyzer finds
\* in two images.
C36_NoInstructionsMeansFullScore ==
    ( /\ ret.fn = "compareRegions" \/ ret.fn = "compareAndGenerateInstructions"
      /\ ret.val.instructions = << >> )
    => ret.val.score = 100

\* two target regions of different colours, one of them matched by a
\* generated region that is displaced by less than the distance that calls
\* for an instruction
C36_Witness ==
    /\ ret.fn = "compareRegions"
    /\ Len(call.arg.target) = 2
    /\ call.arg.target[1].color # call.arg.target[2].color
    /\ \E t \in 1 .. 2 :
          LET m == findBestColorMatch(call.arg.target[t], call.arg.generated)
          IN  /\ m # 0
              /\ PositionDiff(call.arg.target[t], call.arg.generated[m]) > 0
    /\ ret.val.instructions = << >>
    /\ ret.val.score = 100

\* C37: a run of FeedbackLoopTest in which no setup, generation, capture or
\* evaluation call failed ends with the summary written and success = true
\* returned, bestScore being the maximum of the round scores and
\* bestIteration the first round with that score.
C37_FeedbackLoopSucceeds ==
    ( /\ orch = "feedback"
      /\ pc = "done"
      /\ failure # "setup"
      /\ failure # "generation"
      /\ failure # "capture_load"
      /\ failure # "no_canvas"
      /\ failure # "evaluation" )
    => /\ status = "completed"
       /\ results.success
       /\ results.bestScore = MaxScore
       /\ results.bestIteration \in Rounds
       /\ ScoreOf(results.bestIteration) = MaxScore

\* C38: detectPromptInjection is deterministic: two calls on the same
\* validator with the same text return the same isSafe and the same
\* violations, whatever texts were checked in between.
C38_DetectionDeterministic ==
    ret.fn = "detectPromptInjection"
    => \A i, j \in 1 .. Len(ret.val) :
          call.arg[i] = call.arg[j] => ret.val[i] = ret.val[j]

\* C39: every floodFillRegion call of a findMajorRegions scan terminates: its
\* loop makes one iteration for the start point and four for each point it
\* takes, and it takes each sample point of the image at most once; and no
\* sample point is taken by two flood fills of the scan: the point sets of
\* distinct fills are disjoint.
C39_FloodFillTerminatesDisjoint ==
    ret.fn = "scanRegions"
    => /\ \A k \in 1 .. Len(ret.val.fills) :
             /\ ret.val.fills[k].pixels \subseteq SamplePoints
             /\ ret.val.fills[k].start \in ret.val.fills[k].pixels
             /\ ret.val.fills[k].steps = 1 + 4 * Cardinality(ret.val.fills[k].pixels)
             /\ ret.val.fills[k].steps <= 1 + 4 * Cardinality(SamplePoints)
       /\ \A j, k \in 1 .. Len(ret.val.fills) :
             j # k => ret.val.fills[j].pixels \cap ret.val.fills[k].pixels = {}

\* a scan of three stripes whose neighbouring shades are within the colour
\* tolerance: the first fill took two stripes, the second the third stripe
C39_Witness ==
    /\ ret.fn = "scanRegions"
    /\ Len(call.arg.shapes) = 3
    /\ Len(ret.val.fills) = 2
    /\ Cardinality(ret.val.fills[1].pixels) = 2 * Cardinality(ret.val.fills[2].pixels)
    /\ \E p \in ret.val.fills[1].pixels, q \in ret.val.fills[2].pixels :
          q = << p[1] + SampleStep, p[2] >>

\* C40: every region findMajorRegions returns, and every region its scan
\* pushes for consolidation, has a bounding box of strictly positive width
\* and height, so the aspect ratios computed on these regions (merge guard,
\* significance filter, line-or-rectangle choice) divide by a non-zero value.
C40_RegionsHavePositiveSize ==
    /\ ret.fn = "scanRegions"
       => /\ \A k \in 1 .. Len(ret.val.scanned) :
                ret.val.scanned[k].bounds.width > 0 /\ ret.val.scanned[k].bounds.height > 0
          /\ \A k \in 1 .. Len(ret.val.regions) :
                ret.val.regions[k].bounds.width > 0 /\ ret.val.regions[k].bounds.height > 0
    /\ ret.fn = "findMajorRegions"
       => \A k \in 1 .. Len(ret.val) :
             ret.val[k].bounds.width > 0 /\ ret.val[k].bounds.height > 0

\* a scan that filled a line one sample wide (bounding box of width 0) and
\* did not push it, and returned the corner of two lines beside it
C40_Witness ==
    /\ ret.fn = "scanRegions"
    /\ \E k \in 1 .. Len(ret.val.fills) :
          /\ ret.val.fills[k].bounds.width = 0
          /\ ret.val.fills[k].bounds.height > 0
          /\ Cardinality(ret.val.fills[k].pixels) >= MinRegionPixels
          /\ ~ret.val.fills[k].pushed
    /\ Len(ret.val.regions) = 1

====
